---- MODULE Spec2Model ----
(***************************************************************************)
(* The anomaly-detection route of chapmans-peek-oracle (POST /api/anomaly, *)
(* the TypeScript that follows the markdown in src/README.md, lines        *)
(* 210-523): the statistics helpers, the four detectors and the            *)
(* aggregating handler; then the registration, login and logout routes     *)
(* (src/app/api/auth) and the market-data socket of the dashboard          *)
(* (src/unnamed/part_001), each with a specification of its own over the   *)
(* same variables.                                                         *)
(*                                                                         *)
(* JavaScript numbers are binary floating point: every +, -, *, / and      *)
(* Math.sqrt rounds its exact result to the nearest representable value,   *)
(* ties to even.  The model keeps exactly that semantics, with a mantissa  *)
(* of Precision bits instead of 53 (TLC's integers are 32 bits wide) and   *)
(* an unbounded exponent (the inputs are far from the overflow and         *)
(* underflow thresholds).  A number is a pair <<m, e>> standing for        *)
(* m * 2^e, with a mantissa m of exactly Precision bits, or <<0, 0>>; NaN  *)
(* and the two infinities are the pairs with the reserved exponent.  The   *)
(* sign of zero is not modelled.                                           *)
(***************************************************************************)
EXTENDS Integers, Sequences, FiniteSets, TLC

\* ------------------------------------------------------------------ bounds
\* Bits of mantissa of the modelled floating-point format.
Precision == 11
\* Longest history a request carries.
MaxLen == 20
\* Distinct readings of the clock (Date.now()).
MaxTime == 2

\* Longest array handed to mean directly.
MaxArgs == 3
\* Registration requests of a run.
MaxRequests == 2
\* WebSockets the dashboard constructs in a run.
MaxSockets == 3
\* Ticker messages per symbol while connections come and go.
MaxTicks == 1
\* Ticker messages per symbol on a connection that stays open.
MaxMessages == 102
\* Detection responses with findings that the dashboard receives in a run.
MaxResponses == 14
\* Seconds that pass in one step of the clock.
TickSeconds == 15

\* ------------------------------------------------- floating-point numbers
Abs(n) == IF n < 0 THEN -n ELSE n

Sgn(n) == IF n < 0 THEN -1 ELSE IF n > 0 THEN 1 ELSE 0

Pow2(k) == 2 ^ k

\* Number of bits of n, 0 <= n < 2^32.
BitLen4(n) == IF n < 4 THEN (IF n < 2 THEN n ELSE 2) ELSE (IF n < 8 THEN 3 ELSE 4)

BitLen8(n) == IF n < 16 THEN BitLen4(n) ELSE 4 + BitLen4(n \div 16)

BitLen16(n) == IF n < 256 THEN BitLen8(n) ELSE 8 + BitLen8(n \div 256)

BitLen(n) == IF n < 65536 THEN BitLen16(n) ELSE 16 + BitLen16(n \div 65536)

NaN == <<0, 9999>>

Infinity == <<1, 9999>>

NegInfinity == <<-1, 9999>>

Zero == <<0, 0>>

IsFinite(x) == x[2] # 9999

\* RoundInt for a q of len bits: the mantissa keeps the top Precision bits
\* of q and goes up by one when the rest is above a half, or is a half and
\* the kept part is odd.
RoundBits(s, q, sticky, e, len) ==
  IF len <= Precision
    THEN <<s * q * Pow2(Precision - len), e - (Precision - len)>>
    ELSE LET sh   == len - Precision
             lo   == q \div Pow2(sh)
             rem  == q % Pow2(sh)
             half == Pow2(sh - 1)
             up   == \/ rem > half
                     \/ rem = half /\ (sticky \/ lo % 2 = 1)
         IN  IF ~up THEN <<s * lo, e + sh>>
             ELSE IF lo + 1 = Pow2(Precision)
               THEN <<s * Pow2(Precision - 1), e + sh + 1>>
             ELSE <<s * (lo + 1), e + sh>>

\* The number nearest to s * (q + d) * 2^e, ties to even, where q > 0,
\* 0 <= d < 1 and d > 0 iff sticky (then q has more than Precision bits).
RoundInt(s, q, sticky, e) == RoundBits(s, q, sticky, e, BitLen(q))

\* The number nearest to s * (a / D) * 2^e, for a > 0 scaled by 2^sc.
RoundScaled(s, a, D, e, sc) ==
  RoundInt(s, (a * Pow2(sc)) \div D, (a * Pow2(sc)) % D # 0, e - sc)

\* The number nearest to the rational (N / D) * 2^e, D > 0.
Round(N, D, e) ==
  IF N = 0 THEN Zero
  ELSE LET up == Precision + 1 + BitLen(D) - BitLen(Abs(N))
       IN  RoundScaled(Sgn(N), Abs(N), D, e,
                       IF up > 0 /\ Abs(N) % D # 0 THEN up ELSE 0)

\* The number an integer literal or an array length denotes.
FromInt(n) == Round(n, 1, 0)

\* A decimal literal num/den of a JSON body, as JSON.parse reads it.
JsonNumber(num, den) == Round(num, den, 0)

\* Sign of a - b for finite a and b.
FCmp(a, b) ==
  IF Sgn(a[1]) # Sgn(b[1]) THEN Sgn(Sgn(a[1]) - Sgn(b[1]))
  ELSE IF a[2] # b[2] THEN (IF a[2] > b[2] THEN Sgn(a[1]) ELSE -Sgn(a[1]))
  ELSE Sgn(a[1] - b[1])

FNeg(x) == IF x = NaN THEN NaN ELSE <<-x[1], x[2]>>

FAbs(x) == <<Abs(x[1]), x[2]>>

FAdd(a, b) ==
  IF a = NaN \/ b = NaN THEN NaN
  ELSE IF ~IsFinite(a) THEN (IF IsFinite(b) \/ b = a THEN a ELSE NaN)
  ELSE IF ~IsFinite(b) THEN b
  ELSE IF a[1] = 0 THEN b
  ELSE IF b[1] = 0 THEN a
  ELSE IF a[2] - b[2] > Precision + 2 THEN a
  ELSE IF b[2] - a[2] > Precision + 2 THEN b
  ELSE LET e == IF a[2] < b[2] THEN a[2] ELSE b[2]
           N == a[1] * Pow2(a[2] - e) + b[1] * Pow2(b[2] - e)
       IN  IF N = 0 THEN Zero ELSE RoundInt(Sgn(N), Abs(N), FALSE, e)

FSub(a, b) == FAdd(a, FNeg(b))

FMul(a, b) ==
  IF a = NaN \/ b = NaN THEN NaN
  ELSE IF ~IsFinite(a) \/ ~IsFinite(b)
    THEN (IF a[1] = 0 \/ b[1] = 0 THEN NaN
          ELSE IF Sgn(a[1]) = Sgn(b[1]) THEN Infinity ELSE NegInfinity)
  ELSE IF a[1] = 0 \/ b[1] = 0 THEN Zero
  ELSE RoundInt(Sgn(a[1]) * Sgn(b[1]), Abs(a[1]) * Abs(b[1]), FALSE, a[2] + b[2])

FDiv(a, b) ==
  IF a = NaN \/ b = NaN THEN NaN
  ELSE IF ~IsFinite(a)
    THEN (IF ~IsFinite(b) THEN NaN
          ELSE IF Sgn(a[1]) * (IF b[1] < 0 THEN -1 ELSE 1) > 0
            THEN Infinity ELSE NegInfinity)
  ELSE IF ~IsFinite(b) THEN Zero
  ELSE IF b[1] = 0
    THEN (IF a[1] = 0 THEN NaN
          ELSE IF a[1] > 0 THEN Infinity ELSE NegInfinity)
  ELSE IF a[1] = 0 THEN Zero
  ELSE LET n == Abs(a[1]) * Pow2(Precision + 1)
           d == Abs(b[1])
       IN  RoundInt(Sgn(a[1]) * Sgn(b[1]), n \div d, n % d # 0,
                    a[2] - b[2] - (Precision + 1))

\* Largest r with r * r <= n, found bit by bit from the bit b down.
RECURSIVE SqrtBits(_, _, _)
SqrtBits(n, r, b) ==
  IF b = 0 THEN r
  ELSE IF (r + b) * (r + b) <= n THEN SqrtBits(n, r + b, b \div 2)
  ELSE SqrtBits(n, r, b \div 2)

FSqrt(x) ==
  IF x = NaN \/ x[1] < 0 THEN NaN
  ELSE IF x = Infinity THEN Infinity
  ELSE IF x[1] = 0 THEN Zero
  ELSE LET m0 == IF x[2] % 2 = 0 THEN x[1] ELSE 2 * x[1]
           e0 == IF x[2] % 2 = 0 THEN x[2] ELSE x[2] - 1
           \* scaled by a power of 4, the root has more than Precision bits
           k  == (Precision + 2) \div 2
           n  == m0 * Pow2(2 * k)
           r  == SqrtBits(n, 0, Pow2(Precision + 1))
       IN  RoundInt(1, r, r * r # n, (e0 \div 2) - k)

\* a > b as JavaScript evaluates it.
FGt(a, b) ==
  IF a = NaN \/ b = NaN THEN FALSE
  ELSE IF a = Infinity THEN b # Infinity
  ELSE IF b = NegInfinity THEN a # NegInfinity
  ELSE IF a = NegInfinity \/ b = Infinity THEN FALSE
  ELSE FCmp(a, b) > 0

\* Mutant: the denominator is used as it is, without || 1.
OrOne_Unguarded(x) == x

\* x || 1
OrOne(x) == IF x = NaN \/ x[1] = 0 THEN FromInt(1) ELSE x

\* Math.min(...arr) and Math.max(...arr), folded over the first n elements.
RECURSIVE MathMin(_, _)
MathMin(arr, n) ==
  IF n = 0 THEN Infinity
  ELSE LET m == MathMin(arr, n - 1)
       IN  IF m = NaN \/ arr[n] = NaN THEN NaN
           ELSE IF FGt(m, arr[n]) THEN arr[n] ELSE m

RECURSIVE MathMax(_, _)
MathMax(arr, n) ==
  IF n = 0 THEN NegInfinity
  ELSE LET m == MathMax(arr, n - 1)
       IN  IF m = NaN \/ arr[n] = NaN THEN NaN
           ELSE IF FGt(arr[n], m) THEN arr[n] ELSE m

\* Math.pow(x, 2)
Square(x) == FMul(x, x)

\* ------------------------------------------------------- array helpers
\* The array of n elements that a map() or a filter() builds from f.
ArrayOf(f, n) == SubSeq(f, 1, n)

\* arr.slice(start) for an integer start (negative counts from the end).
SliceFrom(arr, start) ==
  LET from == IF start < 0
                THEN (IF Len(arr) + start < 0 THEN 0 ELSE Len(arr) + start)
                ELSE (IF start > Len(arr) THEN Len(arr) ELSE start)
  IN  SubSeq(arr, from + 1, Len(arr))

\* arr.slice(0, k) for k >= 0
SliceTo(arr, k) == SubSeq(arr, 1, IF k < Len(arr) THEN k ELSE Len(arr))

\* arr.filter((_, j) => j !== i)
Without(arr, i) ==
  ArrayOf([j \in 1..(Len(arr) - 1) |-> IF j < i THEN arr[j] ELSE arr[j + 1]],
          Len(arr) - 1)

\* arr.sort((a, b) => a - b): Array.prototype.sort is stable, so an element
\* goes behind every earlier element that does not compare greater.
RECURSIVE InsertNumber(_, _)
InsertNumber(s, x) ==
  IF s = <<>> THEN <<x>>
  ELSE IF ~FGt(s[Len(s)], x) THEN Append(s, x)
  ELSE Append(InsertNumber(SubSeq(s, 1, Len(s) - 1), x), s[Len(s)])

RECURSIVE SortNumbers(_, _)
SortNumbers(arr, n) ==
  IF n = 0 THEN <<>> ELSE InsertNumber(SortNumbers(arr, n - 1), arr[n])

\* ------------------------------------------------ statistical helpers
RECURSIVE Reduce(_, _)
Reduce(arr, n) == IF n = 0 THEN Zero ELSE FAdd(Reduce(arr, n - 1), arr[n])

mean(arr) == FDiv(Reduce(arr, Len(arr)), FromInt(Len(arr)))

\* Mutant: the sample standard deviation, with n - 1 for n.
standardDeviation_Sample(arr) ==
  LET avg         == mean(arr)
      squareDiffs == ArrayOf([i \in 1..Len(arr) |-> Square(FSub(arr[i], avg))], Len(arr))
  IN  FSqrt(FDiv(Reduce(squareDiffs, Len(arr)), FromInt(Len(arr) - 1)))

standardDeviation(arr) ==
  LET avg         == mean(arr)
      squareDiffs == ArrayOf([i \in 1..Len(arr) |-> Square(FSub(arr[i], avg))], Len(arr))
  IN  FSqrt(mean(squareDiffs))

\* ---------------------------------------------------------- detectors
null == [type |-> "null"]

\* A price or a volume of the body that is no number: the property is
\* absent, it is null, or it is an object that has no primitive value
\* (such as {"toString": null}).
UndefinedValue == <<0, 9001>>

NullValue == <<0, 9002>>

NoPrimitive == <<0, 9003>>

\* What the arithmetic operators make of an operand: undefined is NaN and
\* null is 0.
ToNumber(x) ==
  IF x = UndefinedValue THEN NaN ELSE IF x = NullValue THEN Zero ELSE x

\* The exception of an operand that cannot be converted.
TypeError == [type |-> "TypeError"]

\* History a detector needs before it evaluates.
MinHistory == 10

LOFMinHistory == 20

DefaultMaWindow == 20

\* Neighbours of the k-distance.
MaxNeighbours == 5

ZScoreThreshold == Round(5, 2, 0)

VolumeThreshold == FromInt(3)

\* Mutant: the handler's deviation threshold is 1 percent.
DeviationThreshold_One == FromInt(1)

DeviationThreshold == FromInt(5)

LOFThreshold == Round(3, 2, 0)

\* Prices the dashboard keeps per symbol.
HistoryCap == 100

\* Alerts the dashboard keeps.
AlertCap == 50

\* Seconds between two runs of the dashboard's anomaly detection.
AnomalyPeriod == 30

\* Prices of a symbol the dashboard needs before it asks for a detection.
DetectionMinHistory == 20

\* What detectZScoreAnomaly returns for a z-score.
ZScoreFinding(zScore, ticker, threshold, now) ==
  LET absZScore == FAbs(zScore)
  IN  IF FGt(absZScore, threshold)
        THEN [type      |-> "zscore",
              severity  |-> IF FGt(absZScore, FromInt(4)) THEN "critical"
                            ELSE IF FGt(absZScore, FromInt(3)) THEN "high"
                            ELSE IF FGt(absZScore, Round(5, 2, 0)) THEN "medium"
                            ELSE "low",
              score     |-> absZScore,
              threshold |-> threshold,
              timestamp |-> now,
              ticker    |-> ticker,
              direction |-> IF FGt(zScore, Zero) THEN "above" ELSE "below"]
        ELSE null

\* Mutant: the mean is measured from the current price.
detectZScoreAnomaly_Reversed(currentPrice, historicalPrices, ticker, threshold, now) ==
  IF Len(historicalPrices) < MinHistory THEN null
  ELSE LET avg == mean(historicalPrices)
           std == standardDeviation(historicalPrices)
       IN  IF std = Zero THEN null
           ELSE IF currentPrice = NoPrimitive THEN TypeError
           ELSE ZScoreFinding(FDiv(FSub(avg, ToNumber(currentPrice)), std),
                              ticker, threshold, now)

detectZScoreAnomaly(currentPrice, historicalPrices, ticker, threshold, now) ==
  IF Len(historicalPrices) < MinHistory THEN null
  ELSE LET avg == mean(historicalPrices)
           std == standardDeviation(historicalPrices)
       IN  IF std = Zero THEN null
           ELSE IF currentPrice = NoPrimitive THEN TypeError
           ELSE ZScoreFinding(FDiv(FSub(ToNumber(currentPrice), avg), std),
                              ticker, threshold, now)

\* Mutant: a ratio equal to the threshold is a finding, and a ratio equal
\* to a step of the ladder is in the bucket above it.
VolumeSpikeFinding_Inclusive(volumeRatio, avgVolume, ticker, threshold, now) ==
  IF ~FGt(threshold, volumeRatio) /\ volumeRatio # NaN
    THEN [type      |-> "volume_spike",
          severity  |-> IF ~FGt(FromInt(10), volumeRatio) THEN "critical"
                        ELSE IF ~FGt(FromInt(5), volumeRatio) THEN "high"
                        ELSE IF ~FGt(FromInt(3), volumeRatio) THEN "medium"
                        ELSE "low",
          score     |-> volumeRatio,
          threshold |-> threshold,
          timestamp |-> now,
          ticker    |-> ticker,
          averageVolume |-> avgVolume]
    ELSE null

\* What detectVolumeSpikeAnomaly returns for a ratio to the average volume.
VolumeSpikeFinding(volumeRatio, avgVolume, ticker, threshold, now) ==
  IF FGt(volumeRatio, threshold)
    THEN [type      |-> "volume_spike",
          severity  |-> IF FGt(volumeRatio, FromInt(10)) THEN "critical"
                        ELSE IF FGt(volumeRatio, FromInt(5)) THEN "high"
                        ELSE IF FGt(volumeRatio, FromInt(3)) THEN "medium"
                        ELSE "low",
          score     |-> volumeRatio,
          threshold |-> threshold,
          timestamp |-> now,
          ticker    |-> ticker,
          averageVolume |-> avgVolume]
    ELSE null

\* Mutant: the length of the history is not checked.
detectVolumeSpikeAnomaly_NoGuard(currentVolume, historicalVolumes, ticker, threshold, now) ==
  LET avgVolume == mean(historicalVolumes)
  IN  IF currentVolume = NoPrimitive THEN TypeError
      ELSE VolumeSpikeFinding(FDiv(ToNumber(currentVolume), avgVolume), avgVolume,
                              ticker, threshold, now)

\* Mutant: the historical volumes are simulated with noise drawn at the
\* time of the call, as the dashboard simulates them.
detectVolumeSpikeAnomaly_Noise(currentVolume, historicalVolumes, ticker, threshold, now) ==
  IF Len(historicalVolumes) < MinHistory THEN null
  ELSE LET avgVolume == FMul(mean(historicalVolumes), FromInt(now))
       IN  IF currentVolume = NoPrimitive THEN TypeError
           ELSE VolumeSpikeFinding(FDiv(ToNumber(currentVolume), avgVolume), avgVolume,
                                   ticker, threshold, now)

detectVolumeSpikeAnomaly(currentVolume, historicalVolumes, ticker, threshold, now) ==
  IF Len(historicalVolumes) < MinHistory THEN null
  ELSE LET avgVolume == mean(historicalVolumes)
       IN  IF currentVolume = NoPrimitive THEN TypeError
           ELSE VolumeSpikeFinding(FDiv(ToNumber(currentVolume), avgVolume), avgVolume,
                                   ticker, threshold, now)

\* What detectPriceDeviation returns for a deviation in percent.
PriceDeviationFinding(deviation, movingAverage, ticker, threshold, now) ==
  LET absDeviation == FAbs(deviation)
  IN  IF FGt(absDeviation, threshold)
        THEN [type      |-> "price_deviation",
              severity  |-> IF FGt(absDeviation, FromInt(15)) THEN "critical"
                            ELSE IF FGt(absDeviation, FromInt(10)) THEN "high"
                            ELSE IF FGt(absDeviation, FromInt(5)) THEN "medium"
                            ELSE "low",
              score     |-> absDeviation,
              threshold |-> threshold,
              timestamp |-> now,
              ticker    |-> ticker,
              direction |-> IF FGt(deviation, Zero) THEN "above" ELSE "below",
              movingAverage |-> movingAverage]
        ELSE null

detectPriceDeviation(currentPrice, prices, ticker, maWindow, threshold, now) ==
  IF Len(prices) < maWindow THEN null
  ELSE LET recentPrices  == SliceFrom(prices, -maWindow)
           movingAverage == mean(recentPrices)
       IN  IF currentPrice = NoPrimitive THEN TypeError
           ELSE PriceDeviationFinding(
                  FMul(FDiv(FSub(ToNumber(currentPrice), movingAverage), movingAverage),
                       FromInt(100)),
                  movingAverage, ticker, threshold, now)

\* Math.sqrt(Math.pow(a.price - b.price, 2) + Math.pow(a.volume - b.volume, 2))
Distance(a, b) ==
  FSqrt(FAdd(Square(FSub(a.price, b.price)), Square(FSub(a.volume, b.volume))))

\* Mutant: the minimum is not subtracted.
Normalize_Unshifted(point, priceMin, volumeMin, priceDen, volumeDen) ==
  [price  |-> FDiv(point.price, priceDen),
   volume |-> FDiv(point.volume, volumeDen)]

\* (value - min) / (max - min || 1), for the price and the volume of a point.
Normalize(point, priceMin, volumeMin, priceDen, volumeDen) ==
  [price  |-> FDiv(FSub(point.price, priceMin), priceDen),
   volume |-> FDiv(FSub(point.volume, volumeMin), volumeDen)]

\* others.map(p => distance(point, p)).sort((a, b) => a - b).slice(0, k)
KDistance(point, others, k) ==
  LET n == Len(others)
  IN  SliceTo(SortNumbers(ArrayOf([j \in 1..n |-> Distance(point, others[j])], n), n), k)

\* The end of detectLOFAnomaly: the score from the k-distances.
LOFScore(priceDen, volumeDen, normalizedCurrent, normalizedHistorical, kDistance, avgKDistance, avgHistoricalKDistance) ==
  [priceDen               |-> priceDen,
   volumeDen              |-> volumeDen,
   normalizedCurrent      |-> normalizedCurrent,
   normalizedHistorical   |-> normalizedHistorical,
   nearest                |-> kDistance,
   avgKDistance           |-> avgKDistance,
   avgHistoricalKDistance |-> avgHistoricalKDistance,
   scoreDen               |-> OrOne(avgHistoricalKDistance),
   lofScore               |-> FDiv(avgKDistance, OrOne(avgHistoricalKDistance))]

\* The average k-distance of the current point, given its k-distances.
LOFAverages(priceDen, volumeDen, normalizedCurrent, normalizedHistorical, k, kDistance) ==
  LET n == Len(normalizedHistorical)
      historicalKDistances ==
        ArrayOf([i \in 1..n |->
                   mean(KDistance(normalizedHistorical[i],
                                  Without(normalizedHistorical, i), k))], n)
  IN  LOFScore(priceDen, volumeDen, normalizedCurrent, normalizedHistorical,
               kDistance, mean(kDistance), mean(historicalKDistances))

\* The k-distances of the normalized points.
LOFNeighbours(priceDen, volumeDen, normalizedCurrent, normalizedHistorical, k) ==
  LOFAverages(priceDen, volumeDen, normalizedCurrent, normalizedHistorical, k,
              KDistance(normalizedCurrent, normalizedHistorical, k))

\* The min-max normalization of the current point and of the history.
LOFNormalized(current, historicalData, priceMin, volumeMin, priceDen, volumeDen) ==
  LET n == Len(historicalData)
  IN  LOFNeighbours(priceDen, volumeDen,
        Normalize(current, priceMin, volumeMin, priceDen, volumeDen),
        ArrayOf([i \in 1..n |-> Normalize(historicalData[i], priceMin, volumeMin,
                                          priceDen, volumeDen)], n),
        IF MaxNeighbours < n - 1 THEN MaxNeighbours ELSE n - 1)

\* The values detectLOFAnomaly computes on its way to the score, for a
\* history of at least one point.
LOFValues(currentPrice, currentVolume, historicalData) ==
  LET n         == Len(historicalData)
      prices    == ArrayOf([i \in 1..n |-> historicalData[i].price], n)
      volumes   == ArrayOf([i \in 1..n |-> historicalData[i].volume], n)
      priceMin  == MathMin(prices, n)
      volumeMin == MathMin(volumes, n)
  IN  LOFNormalized([price |-> ToNumber(currentPrice), volume |-> ToNumber(currentVolume)],
                    historicalData, priceMin, volumeMin,
                    OrOne(FSub(MathMax(prices, n), priceMin)),
                    OrOne(FSub(MathMax(volumes, n), volumeMin)))

\* What detectLOFAnomaly returns for a score.
LOFFinding(lofScore, ticker, threshold, now) ==
  IF FGt(lofScore, threshold)
    THEN [type      |-> "lof",
          severity  |-> IF FGt(lofScore, FromInt(3)) THEN "critical"
                        ELSE IF FGt(lofScore, FromInt(2)) THEN "high"
                        ELSE IF FGt(lofScore, Round(3, 2, 0)) THEN "medium"
                        ELSE "low",
          score     |-> lofScore,
          threshold |-> threshold,
          timestamp |-> now,
          ticker    |-> ticker]
    ELSE null

detectLOFAnomaly(currentPrice, currentVolume, historicalData, ticker, threshold, now) ==
  IF Len(historicalData) < LOFMinHistory THEN null
  ELSE IF currentPrice = NoPrimitive \/ currentVolume = NoPrimitive THEN TypeError
  ELSE LOFFinding(LOFValues(currentPrice, currentVolume, historicalData).lofScore,
                  ticker, threshold, now)

\* ------------------------------------------------------------ JSON values
\* A value of a request body carries its JavaScript type in t.
Undefined == [t |-> "undefined"]

JsonString(v) == [t |-> "string", v |-> v]

JsonArray(v) == [t |-> "array", v |-> v]

\* !x is false
Truthy(x) == x.t # "undefined" /\ ~(x.t = "string" /\ x.v = "")

\* ------------------------------------------------------------ aggregator
severityOrder(severity) ==
  CASE severity = "critical" -> 0
    [] severity = "high"     -> 1
    [] severity = "medium"   -> 2
    [] severity = "low"      -> 3

\* if (x) anomalies.push(x)
Push(anomalies, x) == IF x = null THEN anomalies ELSE Append(anomalies, x)

\* Mutant: an element goes before the earlier elements of the same rank.
RECURSIVE InsertAnomaly_Unstable(_, _)
InsertAnomaly_Unstable(s, x) ==
  IF s = <<>> THEN <<x>>
  ELSE IF severityOrder(s[Len(s)].severity) - severityOrder(x.severity) < 0
    THEN Append(s, x)
  ELSE Append(InsertAnomaly_Unstable(SubSeq(s, 1, Len(s) - 1), x), s[Len(s)])

\* anomalies.sort((a, b) => severityOrder[a.severity] - severityOrder[b.severity])
\* (stable: an element goes behind the earlier elements of the same rank).
RECURSIVE InsertAnomaly(_, _)
InsertAnomaly(s, x) ==
  IF s = <<>> THEN <<x>>
  ELSE IF severityOrder(s[Len(s)].severity) - severityOrder(x.severity) <= 0
    THEN Append(s, x)
  ELSE Append(InsertAnomaly(SubSeq(s, 1, Len(s) - 1), x), s[Len(s)])

\* Mutant: the findings stay in the order the detectors ran.
SortAnomalies_Unsorted(anomalies, n) == anomalies

RECURSIVE SortAnomalies(_, _)
SortAnomalies(anomalies, n) ==
  IF n = 0 THEN <<>>
  ELSE InsertAnomaly(SortAnomalies(anomalies, n - 1), anomalies[n])

\* Mutant: a new kind goes to the front of the list (unshift for push).
RECURSIVE TypesList_Unshift(_, _)
TypesList_Unshift(anomalies, n) ==
  IF n = 0 THEN <<>>
  ELSE LET typesList == TypesList_Unshift(anomalies, n - 1)
       IN  IF \E i \in 1..Len(typesList) : typesList[i] = anomalies[n].type
             THEN typesList
             ELSE <<anomalies[n].type>> \o typesList

\* anomalies.forEach(a => { if (!typesList.includes(a.type)) typesList.push(a.type) })
RECURSIVE TypesList(_, _)
TypesList(anomalies, n) ==
  IF n = 0 THEN <<>>
  ELSE LET typesList == TypesList(anomalies, n - 1)
       IN  IF \E i \in 1..Len(typesList) : typesList[i] = anomalies[n].type
             THEN typesList
             ELSE Append(typesList, anomalies[n].type)

\* Mutant: the severity of the last finding.
HighestSeverity_Last(anomalies) ==
  IF Len(anomalies) > 0 THEN anomalies[Len(anomalies)].severity ELSE "none"

\* anomalies[0]?.severity || 'none'
HighestSeverity(anomalies) ==
  IF Len(anomalies) > 0 THEN anomalies[1].severity ELSE "none"

Summary(anomalies) ==
  [hasAnomalies    |-> Len(anomalies) > 0,
   highestSeverity |-> HighestSeverity(anomalies),
   types           |-> TypesList(anomalies, Len(anomalies))]

NoDetection ==
  [zScoreAnomaly |-> null, volumeAnomaly |-> null,
   priceDeviation |-> null, lofAnomaly |-> null]

\* The detectors run one after the other inside one try block: the first
\* exception ends the block, and the detectors behind it are not called.
RunInOrder(zScoreAnomaly, volumeAnomaly, priceDeviation, lofAnomaly) ==
  IF zScoreAnomaly = TypeError
    THEN [NoDetection EXCEPT !.zScoreAnomaly = TypeError]
  ELSE IF volumeAnomaly = TypeError
    THEN [NoDetection EXCEPT !.zScoreAnomaly = zScoreAnomaly, !.volumeAnomaly = TypeError]
  ELSE IF priceDeviation = TypeError
    THEN [NoDetection EXCEPT !.zScoreAnomaly = zScoreAnomaly, !.volumeAnomaly = volumeAnomaly,
                             !.priceDeviation = TypeError]
  ELSE [zScoreAnomaly  |-> zScoreAnomaly,
        volumeAnomaly  |-> volumeAnomaly,
        priceDeviation |-> priceDeviation,
        lofAnomaly     |-> lofAnomaly]

\* The four detector calls of the handler, with the default thresholds.
Detect(ticker, currentData, historicalData, now) ==
  LET n                 == Len(historicalData)
      historicalPrices  == ArrayOf([i \in 1..n |-> historicalData[i].price], n)
      historicalVolumes == ArrayOf([i \in 1..n |-> historicalData[i].volume], n)
  IN  RunInOrder(
        detectZScoreAnomaly(currentData.price, historicalPrices,
                            ticker, ZScoreThreshold, now),
        detectVolumeSpikeAnomaly(currentData.volume, historicalVolumes,
                                 ticker, VolumeThreshold, now),
        detectPriceDeviation(currentData.price, historicalPrices, ticker,
                             DefaultMaWindow, DeviationThreshold, now),
        detectLOFAnomaly(currentData.price, currentData.volume,
                         historicalData, ticker, LOFThreshold, now))

\* Whether a detector threw.
Thrown(d) ==
  TypeError \in {d.zScoreAnomaly, d.volumeAnomaly, d.priceDeviation, d.lofAnomaly}

\* Mutant: the finding of the z-score detector is pushed again at the end.
Collected_Twice(d) ==
  Push(Push(Push(Push(Push(<<>>, d.zScoreAnomaly), d.volumeAnomaly),
                 d.priceDeviation), d.lofAnomaly), d.zScoreAnomaly)

\* The anomalies array as the handler fills it, before the sort.
Collected(d) ==
  Push(Push(Push(Push(<<>>, d.zScoreAnomaly), d.volumeAnomaly),
            d.priceDeviation), d.lofAnomaly)

\* The 200 response built from the detectors' results.
Respond(ticker, d, now) ==
  LET anomalies == SortAnomalies(Collected(d), Len(Collected(d)))
  IN  [status |-> 200,
       body   |-> [ticker       |-> ticker,
                   timestamp    |-> now,
                   anomalyCount |-> Len(anomalies),
                   anomalies    |-> anomalies,
                   summary      |-> Summary(anomalies)]]

BadRequest == [status |-> 400, body |-> [error |-> "Missing required data"]]

ServerError == [status |-> 500, body |-> [error |-> "Anomaly detection failed"]]

\* Mutant: an empty history counts as missing.
HasRequiredData_NonEmpty(body) ==
  /\ Truthy(body.ticker) /\ Truthy(body.currentData) /\ Truthy(body.historicalData)
  /\ body.historicalData.t = "array" => Len(body.historicalData.v) > 0

\* Whether the handler's guard lets the body through to the detectors.
HasRequiredData(body) ==
  Truthy(body.ticker) /\ Truthy(body.currentData) /\ Truthy(body.historicalData)

\* Whether the handler throws before it calls a detector: request.json()
\* rejects a body that is not JSON, and a historicalData that is no array
\* has no map().
Throws(body) ==
  \/ body.t = "invalid"
  \/ HasRequiredData(body) /\ body.historicalData.t # "array"

\* ------------------------------------------------------------------ state
VARIABLES
  pc,        \* "idle", "pending" (a request is with the handler) or "done"
  request,   \* the body of the request
  detected,  \* what the four detectors returned to the handler
  response,  \* the handler's response
  prev,      \* once the request is repeated: the findings of the first response
  call,      \* a direct call of a helper or a detector: the function and its arguments
  result,    \* what the call returned or threw
  VALID_INVITES,     \* the invite codes of the invite route, each used or not
  REGISTERED_USERS,  \* the users the invite route has registered, by email
  expired,   \* whether the clock is past the expiresAt of the invites
  handlers,  \* the registration requests: where each handler is, and its answer
  jar,       \* the cookies of the browser: the token under each name
  session,   \* the client: logged in or out, and the cookie its login set
  authResponse,  \* the last answer of a login or logout handler
  mounted,   \* the dashboard: "no", "yes" or "gone"
  sockets,   \* the readyState of each WebSocket of the dashboard
  binanceWsRef,         \* the socket binanceWsRef.current, 0 for null
  timers,    \* the reconnect timeouts that are pending, by the socket that set them
  reconnectTimeoutRef,  \* the timeout reconnectTimeoutRef.current, 0 for null
  priceHistory,  \* the prices kept for each symbol
  feed,      \* the messages the streams have delivered, by symbol
  dirty,     \* whether the market data changed since the effect ran
  elapsed,   \* seconds since the anomaly interval was set or ran
  snapshot,  \* the price history that the runAnomalyDetection of the interval closes over
  asked,     \* the symbols the dashboard has sent a detection request for
  anomalies,     \* the alerts the dashboard lists
  anomalyCount,  \* the dashboard's count of alerts
  batches,   \* the numbers of findings of the responses that had findings, in order of arrival
  quiet      \* the responses without findings, or not ok, that have arrived

\* The anomaly route and its client.
apiVars == <<pc, request, detected, response, prev>>

\* Direct calls of the exported functions.
callVars == <<call, result>>

\* The invite route.
inviteVars == <<VALID_INVITES, REGISTERED_USERS, expired, handlers>>

\* The login and logout routes and the browser.
sessionVars == <<jar, session, authResponse>>

\* The dashboard.
dashVars == <<mounted, sockets, binanceWsRef, timers, reconnectTimeoutRef, priceHistory,
              feed, dirty, elapsed, snapshot, asked>>

\* The anomaly interval of the dashboard.
periodVars == <<elapsed, snapshot, asked>>

\* The alerts of the dashboard.
alertVars == <<anomalies, anomalyCount, batches, quiet>>

vars == <<apiVars, callVars, inviteVars, sessionVars, dashVars, alertVars>>

\* What a part of the program leaves alone: the variables of the others.
notApi == <<callVars, inviteVars, sessionVars, dashVars, alertVars>>

notCall == <<apiVars, inviteVars, sessionVars, dashVars, alertVars>>

notInvite == <<apiVars, callVars, authResponse, dashVars, alertVars>>

notSession == <<apiVars, callVars, inviteVars, dashVars, alertVars>>

notDash == <<apiVars, callVars, inviteVars, sessionVars, alertVars>>

notAlert == <<apiVars, callVars, inviteVars, sessionVars>>

NoRequest == [t |-> "none"]

NoResponse == [status |-> 0]

NoFindings == [seen |-> FALSE, timestamp |-> 0]

\* ----------------------------------------------------------------- inputs
Tickers == {JsonString("BTCUSDT"), JsonString(""), Undefined}

\* Histories alternate between two prices and between two volumes.
PricePatterns ==
  { <<JsonNumber(100, 1), JsonNumber(100, 1)>>,
    <<JsonNumber(3, 10),  JsonNumber(3, 10)>>,
    <<JsonNumber(100, 1), JsonNumber(102, 1)>>,
    <<JsonNumber(90, 1),  JsonNumber(110, 1)>> }

VolumePatterns ==
  { <<JsonNumber(0, 1),  JsonNumber(0, 1)>>,
    <<JsonNumber(10, 1), JsonNumber(10, 1)>>,
    <<JsonNumber(8, 1),  JsonNumber(12, 1)>> }

CurrentPrices ==
  { JsonNumber(100, 1), JsonNumber(104, 1), JsonNumber(112, 1), JsonNumber(4, 10) }

CurrentVolumes ==
  { JsonNumber(0, 1), JsonNumber(35, 1), JsonNumber(120, 1) }

Lengths == {0, MinHistory - 1, MinHistory, LOFMinHistory - 1, LOFMinHistory, MaxLen}

History(n, pp, vp) ==
  ArrayOf([i \in 1..n |-> [price     |-> pp[2 - (i % 2)],
                           volume    |-> vp[2 - (i % 2)],
                           timestamp |-> i]], n)

Histories ==
  { JsonArray(History(n, pp, vp)) : n \in Lengths, pp \in PricePatterns, vp \in VolumePatterns }

Observations ==
  { [t |-> "object", price |-> p, volume |-> v] : p \in CurrentPrices, v \in CurrentVolumes }

WellFormed ==
  { [t |-> "object", ticker |-> JsonString("BTCUSDT"), currentData |-> c, historicalData |-> h] :
      c \in Observations, h \in Histories }

\* Bodies with a field missing, empty or of the wrong type.
\* Current observations whose price or volume is no number.
Defective ==
  { [t |-> "object", price |-> p, volume |-> JsonNumber(35, 1)] :
      p \in {UndefinedValue, NullValue, NoPrimitive} }
  \cup { [t |-> "object", price |-> JsonNumber(112, 1), volume |-> v] :
      v \in {UndefinedValue, NullValue, NoPrimitive} }

Malformed ==
  LET c == [t |-> "object", price |-> JsonNumber(100, 1), volume |-> JsonNumber(10, 1)]
      h == JsonArray(History(MinHistory, <<JsonNumber(100, 1), JsonNumber(102, 1)>>,
                             <<JsonNumber(10, 1), JsonNumber(10, 1)>>))
  IN  { [t |-> "object", ticker |-> k, currentData |-> cd, historicalData |-> hd] :
          k \in Tickers, cd \in {c, Undefined}, hd \in {h, Undefined, JsonString("abc")} }
      \cup { [t |-> "object", ticker |-> JsonString("BTCUSDT"), currentData |-> cd,
               historicalData |-> JsonArray(History(n, <<JsonNumber(100, 1), JsonNumber(102, 1)>>,
                                                    <<JsonNumber(10, 1), JsonNumber(10, 1)>>))] :
               cd \in Defective, n \in {MinHistory - 1, MinHistory, LOFMinHistory} }
      \cup { [t |-> "invalid"] }

\* Twenty prices between 99 and 101, and a current price of 130.
BandPatterns ==
  { <<JsonNumber(100, 1), JsonNumber(100, 1)>>,
    <<JsonNumber(99, 1),  JsonNumber(101, 1)>>,
    <<JsonNumber(101, 1), JsonNumber(201, 2)>>,
    <<JsonNumber(199, 2), JsonNumber(100, 1)>>,
    <<JsonNumber(993, 10), JsonNumber(993, 10)>> }

ScenarioA ==
  { [t |-> "object", ticker |-> JsonString("BTCUSDT"),
     currentData |-> [t |-> "object", price |-> JsonNumber(130, 1), volume |-> JsonNumber(10, 1)],
     historicalData |-> JsonArray(History(20, pp, <<JsonNumber(10, 1), JsonNumber(10, 1)>>))] :
      pp \in BandPatterns }

Bodies == WellFormed \cup ScenarioA \cup Malformed

\* ---------------------------------------------------------------- actions
\* A client sends a request.
SendRequest(body) ==
  /\ pc = "idle"
  /\ pc' = "pending"
  /\ request' = body
  /\ UNCHANGED <<detected, response, prev, notApi>>

\* What a response says about the findings: kinds, scores and severities.
Findings(r) ==
  IF r.status = 200
    THEN ArrayOf([i \in 1..Len(r.body.anomalies) |->
                    [type     |-> r.body.anomalies[i].type,
                     score    |-> r.body.anomalies[i].score,
                     severity |-> r.body.anomalies[i].severity]],
                 Len(r.body.anomalies))
    ELSE <<r.status>>

\* Mutant: the handler sorts the history it was given, newest first.
InputsAfter_SortedInPlace(body) ==
  IF body.t = "object" /\ body.historicalData.t = "array"
    THEN [body EXCEPT !.historicalData.v =
            [i \in 1..Len(@) |-> @[Len(@) + 1 - i]]]
    ELSE body

\* The body as the handler leaves it. The handler and the detectors read
\* the body with map(), slice(), filter(), reduce() and Math.min(...), which
\* build new arrays or values; the arrays they change, with push() and
\* sort(), are arrays built that way (anomalies, distances, typesList).
InputsAfter(body) == body

\* export async function POST(request), with Date.now() reading now, later
\* than the reading of the answer the client got before.
POST(now) ==
  /\ pc = "pending"
  /\ now > prev.timestamp
  /\ pc' = "done"
  /\ IF Throws(request)
       THEN /\ response' = ServerError
            /\ detected' = NoDetection
       ELSE IF ~HasRequiredData(request)
         THEN /\ response' = BadRequest
              /\ detected' = NoDetection
       ELSE /\ detected' = Detect(request.ticker.v, request.currentData,
                                  request.historicalData.v, now)
            /\ response' = IF Thrown(detected') THEN ServerError
                           ELSE Respond(request.ticker.v, detected', now)
  /\ request' = InputsAfter(request)
  /\ UNCHANGED <<prev, notApi>>

\* The client sends the same body again and keeps the findings it got, as
\* long as the clock has a later reading left.
Repeat ==
  /\ pc = "done"
  /\ ~prev.seen
  /\ response.status = 200 => response.body.timestamp < MaxTime
  /\ pc' = "pending"
  /\ prev' = [seen      |-> TRUE,
              findings  |-> Findings(response),
              timestamp |-> IF response.status = 200 THEN response.body.timestamp ELSE 0]
  /\ response' = NoResponse
  /\ detected' = NoDetection
  /\ UNCHANGED <<request, notApi>>

\* The client is done with the response.
Finish ==
  /\ pc = "done"
  /\ pc' = "idle"
  /\ request' = NoRequest
  /\ detected' = NoDetection
  /\ response' = NoResponse
  /\ prev' = NoFindings
  /\ UNCHANGED notApi

\* ----------------------------------------------------------- direct calls
NoCall == [fn |-> "none"]

NoResult == [none |-> TRUE]

\* What a call of a function gives its caller: the value it returns, or
\* the exception it throws.
Outcome(value) ==
  IF value = TypeError THEN [thrown |-> "TypeError"] ELSE [returned |-> value]

\* mean(arr)
CallMean(arr) ==
  /\ call = NoCall
  /\ call' = [fn |-> "mean", arr |-> arr]
  /\ result' = [returned |-> mean(arr)]
  /\ UNCHANGED notCall

\* detectZScoreAnomaly(currentPrice, historicalPrices, ticker, threshold)
CallZScore(currentPrice, historicalPrices, threshold) ==
  /\ call = NoCall
  /\ call' = [fn |-> "detectZScoreAnomaly", currentPrice |-> currentPrice,
               historicalPrices |-> historicalPrices, threshold |-> threshold]
  /\ result' = Outcome(detectZScoreAnomaly(currentPrice, historicalPrices,
                                           "BTCUSDT", threshold, 1))
  /\ UNCHANGED notCall

\* detectVolumeSpikeAnomaly(currentVolume, historicalVolumes, ticker, threshold)
CallVolumeSpike(currentVolume, historicalVolumes, threshold) ==
  /\ call = NoCall
  /\ call' = [fn |-> "detectVolumeSpikeAnomaly", currentVolume |-> currentVolume,
               historicalVolumes |-> historicalVolumes, threshold |-> threshold]
  /\ result' = Outcome(detectVolumeSpikeAnomaly(currentVolume, historicalVolumes,
                                                "BTCUSDT", threshold, 1))
  /\ UNCHANGED notCall

\* detectPriceDeviation(currentPrice, prices, ticker, maWindow, threshold)
CallPriceDeviation(currentPrice, prices, maWindow, threshold) ==
  /\ call = NoCall
  /\ call' = [fn |-> "detectPriceDeviation", currentPrice |-> currentPrice,
               prices |-> prices, maWindow |-> maWindow, threshold |-> threshold]
  /\ result' = Outcome(detectPriceDeviation(currentPrice, prices, "BTCUSDT",
                                            maWindow, threshold, 1))
  /\ UNCHANGED notCall

\* detectLOFAnomaly(currentPrice, currentVolume, historicalData, ticker, threshold)
CallLOF(currentPrice, currentVolume, historicalData, threshold) ==
  /\ call = NoCall
  /\ call' = [fn |-> "detectLOFAnomaly", currentPrice |-> currentPrice,
               currentVolume |-> currentVolume, historicalData |-> historicalData,
               threshold |-> threshold]
  /\ result' = Outcome(detectLOFAnomaly(currentPrice, currentVolume, historicalData,
                                        "BTCUSDT", threshold, 1))
  /\ UNCHANGED notCall

\* The caller has the outcome.
Return ==
  /\ call # NoCall
  /\ call' = NoCall
  /\ result' = NoResult
  /\ UNCHANGED notCall

\* Arrays of up to MaxArgs numbers.
Numbers == {JsonNumber(0, 1), JsonNumber(1, 1), JsonNumber(1, 10), JsonNumber(-3, 1)}

Arrays == UNION {[1..n -> Numbers] : n \in 0..MaxArgs}

\* Prices around a history of 100, 102, 100, ..., whose mean is 101 and
\* whose standard deviation is 1 when its length is even.
CallPrices == {JsonNumber(k, 4) : k \in 384..424}

CallHistories ==
  { [i \in 1..n |-> pp[2 - (i % 2)]] :
      n \in {MinHistory - 1, MinHistory, MinHistory + 1},
      pp \in {<<JsonNumber(100, 1), JsonNumber(102, 1)>>,
               <<JsonNumber(100, 1), JsonNumber(100, 1)>>,
               <<JsonNumber(993, 10), JsonNumber(1007, 10)>>} }

Thresholds == {FromInt(1), FromInt(2), Round(5, 2, 0), Round(7, 2, 0), FromInt(5)}

\* Volumes around histories of 10, 10, ... and of 0, 0, ...
CallVolumes == {FromInt(k) : k \in {0, 10, 20, 30, 31, 50, 51, 100, 101, 200}}

CallVolumeHistories ==
  { [i \in 1..n |-> FromInt(v)] : n \in {MinHistory - 1, MinHistory}, v \in {0, 10} }

VolumeThresholds == {FromInt(1), FromInt(3), FromInt(5), FromInt(10), FromInt(20)}

\* Series of up to MaxArgs + 1 prices, and the windows of their moving
\* average.
DeviationPrices == {FromInt(k) : k \in {85, 95, 100, 105, 106, 110, 115, 116}}

DeviationSeries == UNION {[1..n -> {FromInt(100), FromInt(110)}] : n \in 0..(MaxArgs + 1)}

MaWindows == 0..(MaxArgs + 2)

DeviationThresholds == {FromInt(1), FromInt(5), FromInt(10), FromInt(15)}

\* Points at a distance of 0 to 4 from the one point of a constant history,
\* and points around a history of two points.
LOFPoints ==
  { [price |-> JsonNumber(p, 2), volume |-> FromInt(10)] : p \in {200, 202, 203, 204, 206, 208} }
  \cup { [price |-> FromInt(130), volume |-> FromInt(10)],
         [price |-> FromInt(101), volume |-> FromInt(30)],
         [price |-> FromInt(101), volume |-> FromInt(10)],
         [price |-> FromInt(99), volume |-> FromInt(10)] }

LOFHistories ==
  { [i \in 1..n |-> [price |-> pp[2 - (i % 2)], volume |-> FromInt(10)]] :
      n \in {LOFMinHistory - 1, LOFMinHistory},
      pp \in {<<FromInt(100), FromInt(100)>>, <<FromInt(100), FromInt(102)>>} }

LOFThresholds == {FromInt(1), Round(3, 2, 0), FromInt(2), FromInt(3)}

\* ------------------------------------------------------------ invitations
\* The strings of the model, with what toUpperCase(), toLowerCase(), trim()
\* and length make of them.
ToUpperCase(s) ==
  CASE s = "oracle-2025-alpha" -> "ORACLE-2025-ALPHA"
    [] s = "Oracle-2025-Alpha" -> "ORACLE-2025-ALPHA"
    [] s = "wrong-code"        -> "WRONG-CODE"
    [] OTHER                   -> s

ToLowerCase(s) ==
  CASE s = "Ada@Example.org "        -> "ada@example.org "
    [] s = "Warren@Chapmans.co.za"   -> "warren@chapmans.co.za"
    [] s = " warren@chapmans.co.za"  -> " warren@chapmans.co.za"
    [] OTHER                         -> s

Trim(s) ==
  CASE s = "ada@example.org "        -> "ada@example.org"
    [] s = "Ada@Example.org "        -> "Ada@Example.org"
    [] s = " warren@chapmans.co.za"  -> "warren@chapmans.co.za"
    [] OTHER                         -> s

\* password.length < 8
TooShort(password) == password = "oracle"

\* const VALID_INVITES, as the module is loaded.
InitialInvites ==
  [code \in {"ORACLE-2025-ALPHA", "SECURITY-360-VIP", "CHAPMANS-BETA-001"} |->
     [used |-> FALSE]]

\* A field of a body that is absent.
Absent == ""

\* The token of a user, issued when the clock reads now: it expires seven
\* days later.
Token(user, now) == [email |-> user, issued |-> now]

\* A cookie the browser does not have.
NoCookie == [email |-> Absent, issued |-> 0]

InviteCodes == {"ORACLE-2025-ALPHA", "oracle-2025-alpha", "wrong-code"}

NewEmails == {"ada@example.org", "Ada@Example.org ", "bob@example.org"}

Passwords == {"oracle2025", "oracle"}

RegistrationBodies ==
  { [inviteCode |-> c, email |-> e, password |-> p] :
      c \in InviteCodes, e \in NewEmails, p \in Passwords }
  \cup { [inviteCode |-> "ORACLE-2025-ALPHA", email |-> Absent, password |-> "oracle2025"] }

\* A request that has not arrived.
NoHandler == [pc |-> "none"]

\* Mutant: the invite is not marked.
MarkUsed_Forgotten(invites, code) == invites

\* invite.used = true
MarkUsed(invites, code) == [invites EXCEPT ![code].used = TRUE]

\* The answer of the registration handler when it rejects the body, 0 when
\* it registers the user: lines 23 to 70 of the route.
Rejection(body, invites, users, past) ==
  IF body.inviteCode = Absent \/ body.email = Absent \/ body.password = Absent
    THEN [status |-> 400, error |-> "All fields are required"]
  ELSE IF ToUpperCase(body.inviteCode) \notin DOMAIN invites
    THEN [status |-> 400, error |-> "Invalid invite code"]
  ELSE IF invites[ToUpperCase(body.inviteCode)].used
    THEN [status |-> 400, error |-> "This invite code has already been used"]
  ELSE IF past
    THEN [status |-> 400, error |-> "This invite code has expired"]
  ELSE IF Trim(ToLowerCase(body.email)) \in DOMAIN users
    THEN [status |-> 400, error |-> "Email already registered"]
  ELSE IF TooShort(body.password)
    THEN [status |-> 400, error |-> "Password must be at least 8 characters"]
  ELSE [status |-> 0]

\* REGISTERED_USERS[normalizedEmail] = {password, role, name, inviteCode}
WithUser(users, body) ==
  [e \in DOMAIN users \cup {Trim(ToLowerCase(body.email))} |->
     IF e = Trim(ToLowerCase(body.email))
       THEN [password |-> body.password, role |-> "user",
             inviteCode |-> ToUpperCase(body.inviteCode)]
       ELSE users[e]]

\* A registration request arrives: POST /api/auth/invite. Requests are
\* numbered in the order of their arrival.
Receive(rid, body) ==
  /\ handlers[rid] = NoHandler
  /\ \A r \in 1..(rid - 1) : handlers[r] # NoHandler
  /\ handlers' = [handlers EXCEPT ![rid] = [pc |-> "parsing", body |-> body]]
  /\ UNCHANGED <<VALID_INVITES, REGISTERED_USERS, expired, jar, session, notInvite>>

\* The handler from the end of await request.json() to its answer of
\* rejection, or to await ...sign(): one run without a break.
Register(rid) ==
  /\ handlers[rid].pc = "parsing"
  /\ LET answer == Rejection(handlers[rid].body, VALID_INVITES, REGISTERED_USERS, expired)
     IN  IF answer.status # 0
           THEN /\ handlers' = [handlers EXCEPT ![rid] =
                                  [pc |-> "done", body |-> @.body, response |-> answer]]
                /\ UNCHANGED <<VALID_INVITES, REGISTERED_USERS>>
           ELSE /\ REGISTERED_USERS' = WithUser(REGISTERED_USERS, handlers[rid].body)
                /\ VALID_INVITES' = MarkUsed(VALID_INVITES,
                                             ToUpperCase(handlers[rid].body.inviteCode))
                /\ handlers' = [handlers EXCEPT ![rid] = [pc |-> "signing", body |-> @.body]]
  /\ UNCHANGED <<expired, jar, session, notInvite>>

\* The handler from the end of await ...sign() to its answer: the cookie
\* is set with the answer.
Welcome(rid) ==
  /\ handlers[rid].pc = "signing"
  /\ handlers' = [handlers EXCEPT ![rid] =
                    [pc |-> "done", body |-> @.body,
                     response |-> [status |-> 200, success |-> TRUE,
                                   email |-> Trim(ToLowerCase(@.body.email))]]]
  /\ jar' = [jar EXCEPT !["oracle-token"] =
                Token(Trim(ToLowerCase(handlers[rid].body.email)), IF expired THEN 2 ELSE 1)]
  /\ UNCHANGED <<VALID_INVITES, REGISTERED_USERS, expired, session, notInvite>>

\* The clock passes the expiresAt of the invites.
Expire ==
  /\ ~expired
  /\ expired' = TRUE
  /\ UNCHANGED <<VALID_INVITES, REGISTERED_USERS, handlers, jar, session, notInvite>>

\* ---------------------------------------------------------------- sessions
\* const USERS of the first login handler, const VALID_USERS of the second.
USERS ==
  [email \in {"warren@chapmans.co.za", "mike@security360.co.za"} |->
     IF email = "warren@chapmans.co.za"
       THEN [password |-> "oracle2025", role |-> "admin", name |-> "Warren"]
       ELSE [password |-> "guardian360", role |-> "admin", name |-> "Mike"]]

VALID_USERS ==
  << [email |-> "warren@chapmans.co.za", password |-> "oracle2025", name |-> "Warren Chapman"],
     [email |-> "mike@security360.co.za", password |-> "guardian360", name |-> "Mike Sears"] >>

LoginEmails ==
  {"warren@chapmans.co.za", "Warren@Chapmans.co.za", " warren@chapmans.co.za",
   "mike@security360.co.za", Absent}

LoginPasswords == {"oracle2025", "guardian360", Absent}

\* The registrations and the logins of a new user, next to a login of a
\* user the login route knows.
AccountBodies ==
  { [inviteCode |-> c, email |-> e, password |-> "oracle2025"] :
      c \in {"ORACLE-2025-ALPHA", "wrong-code"}, e \in NewEmails }

AccountEmails == NewEmails \cup {"warren@chapmans.co.za"}

\* The cookie each login handler sets.
LoginCookie(handler) == IF handler = 1 THEN "oracle-token" ELSE "oracle_token"

\* The user the first handler finds: USERS[email.toLowerCase().trim()] with
\* the password of the body.
FoundByFirst(email, password) ==
  IF Trim(ToLowerCase(email)) \in DOMAIN USERS
       /\ USERS[Trim(ToLowerCase(email))].password = password
    THEN {Trim(ToLowerCase(email))}
    ELSE {}

\* The user the second handler finds: VALID_USERS.find(...), which compares
\* the emails in lower case and does not trim.
FoundBySecond(email, password) ==
  { VALID_USERS[i].email : i \in { j \in 1..Len(VALID_USERS) :
      /\ ToLowerCase(VALID_USERS[j].email) = ToLowerCase(email)
      /\ VALID_USERS[j].password = password } }

\* What a login handler answers, and the cookie it sets.
LoginAnswer(handler, email, password, found) ==
  IF email = Absent \/ password = Absent THEN [status |-> 400]
  ELSE IF found = {} THEN [status |-> 401]
  ELSE [status |-> 200, success |-> TRUE, user |-> CHOOSE u \in found : TRUE,
        cookie |-> LoginCookie(handler)]

\* export async function POST of the login route, in its two versions,
\* with Date.now() reading now.
Login(handler, email, password, now) ==
  /\ LET answer == LoginAnswer(handler, email, password,
                               IF handler = 1 THEN FoundByFirst(email, password)
                               ELSE FoundBySecond(email, password))
     IN  /\ authResponse' = answer
         /\ jar' = IF answer.status = 200
                     THEN [jar EXCEPT ![answer.cookie] = Token(answer.user, now)]
                     ELSE jar
         /\ session' = IF answer.status = 200
                         THEN [state |-> "in", cookie |-> answer.cookie, user |-> answer.user]
                         ELSE session
  /\ UNCHANGED notSession

\* export async function POST and GET of the logout route.
Logout(method) ==
  /\ jar' = [jar EXCEPT !["oracle-token"] = NoCookie]
  /\ authResponse' = IF method = "POST" THEN [status |-> 200, success |-> TRUE]
                     ELSE [status |-> 307, location |-> "/"]
  /\ session' = IF session.state = "in" THEN [session EXCEPT !.state = "out"] ELSE session
  /\ UNCHANGED notSession

\* --------------------------------------------------------------- dashboard
\* The symbols of the two ticker streams.
Symbols == {"BTCUSDT", "ETHUSDT"}

\* The price of the n-th ticker message of a symbol: parseFloat(data.c).
PriceOf(symbol, n) == IF symbol = "BTCUSDT" THEN 50000 + n ELSE 3000 + n

\* Mutant: once the history is full, the new price is the one dropped.
Last100_DropNewest(history) ==
  IF Len(history) <= HistoryCap THEN history ELSE SubSeq(history, 1, HistoryCap)

\* history.slice(-100)
Last100(history) ==
  IF Len(history) <= HistoryCap THEN history
  ELSE SubSeq(history, Len(history) - HistoryCap + 1, Len(history))

\* The sockets that have not been constructed.
Unborn == {w \in 1..MaxSockets : sockets[w] = "unborn"}

\* The socket that new WebSocket(...) constructs next.
NewSocket == CHOOSE w \in Unborn : \A v \in Unborn : w <= v

\* Whether connectBinanceWS() goes on to construct a socket, the sockets
\* being s: it returns at once when the socket of the ref is open.
Connects(s) == binanceWsRef = 0 \/ s[binanceWsRef] # "OPEN"

\* connectBinanceWS(), the sockets being s: a new socket, which the ref is
\* set to, unless the socket of the ref is open.
connectBinanceWS(s) ==
  /\ Connects(s) => Unborn # {}
  /\ sockets' = IF Connects(s) THEN [s EXCEPT ![NewSocket] = "CONNECTING"] ELSE s
  /\ binanceWsRef' = IF Connects(s) THEN NewSocket ELSE binanceWsRef

\* The socket of the ref has not opened yet.
Connecting == binanceWsRef # 0 /\ sockets[binanceWsRef] = "CONNECTING"

\* Mutant: onclose sets no timeout.
Scheduled_Never(pending, w) == pending

\* setTimeout(connectBinanceWS, 3000), in the onclose of the socket w.
Scheduled(pending, w) == pending \cup {w}

\* ws.close()
Closing(s, w) ==
  IF w # 0 /\ s[w] \in {"CONNECTING", "OPEN"} THEN [s EXCEPT ![w] = "CLOSING"] ELSE s

\* The cleanup of the effect: the socket of the ref is closed and the
\* timeout of the ref is cleared.
Cleared == timers \ {reconnectTimeoutRef}

\* The dashboard is mounted and its effect runs.
Mount ==
  /\ mounted = "no"
  /\ mounted' = "yes"
  /\ connectBinanceWS(sockets)
  /\ elapsed' = 0
  /\ snapshot' = priceHistory
  /\ UNCHANGED <<timers, reconnectTimeoutRef, priceHistory, feed, dirty, asked, notDash>>

\* ws.onopen
Open(w) ==
  /\ sockets[w] = "CONNECTING"
  /\ sockets' = [sockets EXCEPT ![w] = "OPEN"]
  /\ UNCHANGED <<mounted, binanceWsRef, timers, reconnectTimeoutRef, priceHistory, feed,
                 dirty, periodVars, notDash>>

\* ws.onmessage with a ticker of the symbol, while no more than limit
\* tickers of it have arrived: the state of a mounted dashboard changes,
\* and with it the function the effect depends on.
Message(w, symbol, limit) ==
  /\ sockets[w] = "OPEN"
  /\ feed[symbol] < limit
  /\ feed' = [feed EXCEPT ![symbol] = @ + 1]
  /\ IF mounted = "yes"
       THEN /\ priceHistory' =
                 [priceHistory EXCEPT ![symbol] =
                    Last100(Append(@, PriceOf(symbol, feed[symbol] + 1)))]
            /\ dirty' = TRUE
       ELSE UNCHANGED <<priceHistory, dirty>>
  /\ UNCHANGED <<mounted, sockets, binanceWsRef, timers, reconnectTimeoutRef, periodVars,
                 notDash>>

\* ws.onmessage with a message that has no symbol, while no more than
\* limit of them have arrived: it is ignored.
OtherMessage(w, limit) ==
  /\ sockets[w] = "OPEN"
  /\ feed["none"] < limit
  /\ feed' = [feed EXCEPT !["none"] = @ + 1]
  /\ UNCHANGED <<mounted, sockets, binanceWsRef, timers, reconnectTimeoutRef, priceHistory,
                 dirty, periodVars, notDash>>

\* ws.onclose, when the connection has gone or has been closed: a timeout
\* for connectBinanceWS is set.
Close(w) ==
  /\ sockets[w] \in {"CONNECTING", "OPEN", "CLOSING"}
  /\ sockets' = [sockets EXCEPT ![w] = "CLOSED"]
  /\ timers' = Scheduled(timers, w)
  /\ reconnectTimeoutRef' = w
  /\ UNCHANGED <<mounted, binanceWsRef, priceHistory, feed, dirty, periodVars, notDash>>

\* The timeout set by the close of w runs out: connectBinanceWS().
TimerFire(w) ==
  /\ w \in timers
  /\ timers' = timers \ {w}
  /\ connectBinanceWS(sockets)
  /\ UNCHANGED <<mounted, reconnectTimeoutRef, priceHistory, feed, dirty, periodVars, notDash>>

\* The effect runs again after a render with new market data: its cleanup,
\* then connectBinanceWS() and a new anomaly interval, for the
\* runAnomalyDetection of this render.
Rerun ==
  /\ mounted = "yes"
  /\ dirty
  /\ dirty' = FALSE
  /\ timers' = Cleared
  /\ connectBinanceWS(Closing(sockets, binanceWsRef))
  /\ elapsed' = 0
  /\ snapshot' = priceHistory
  /\ UNCHANGED <<mounted, reconnectTimeoutRef, priceHistory, feed, asked, notDash>>

\* The dashboard is unmounted: the cleanup of the effect.
Unmount ==
  /\ mounted = "yes"
  /\ mounted' = "gone"
  /\ timers' = Cleared
  /\ sockets' = Closing(sockets, binanceWsRef)
  /\ UNCHANGED <<binanceWsRef, reconnectTimeoutRef, priceHistory, feed, dirty, periodVars,
                 notDash>>

\* ws.onmessage with a ticker of the symbol that repeats its last price.
Quote(w, symbol) ==
  /\ sockets[w] = "OPEN"
  /\ IF mounted = "yes"
       THEN /\ priceHistory' =
                 [priceHistory EXCEPT ![symbol] =
                    Last100(Append(@, PriceOf(symbol, feed[symbol])))]
            /\ dirty' = TRUE
       ELSE UNCHANGED <<priceHistory, dirty>>
  /\ UNCHANGED <<mounted, sockets, binanceWsRef, timers, reconnectTimeoutRef, feed,
                 periodVars, notDash>>

\* The effect has run for the last ticker, and the sockets and the
\* timeouts it left behind are gone.
Settled ==
  /\ ~dirty
  /\ timers = {}
  /\ \A w \in 1..MaxSockets : sockets[w] \in {"unborn", "OPEN"}

\* A ticker that arrives once the dashboard has settled.
SettledQuote(w) == Settled /\ Quote(w, "BTCUSDT")

\* The close event of a socket that the cleanup closed.
CleanupClose(w) == sockets[w] = "CLOSING" /\ Close(w)

\* A timeout that runs out after the new socket has opened.
LateTimerFire(w) == ~Connecting /\ TimerFire(w)

\* A closed socket that neither the ref nor a timeout leads to is gone.
Collect(w) ==
  /\ sockets[w] = "CLOSED"
  /\ w # binanceWsRef
  /\ w \notin timers
  /\ sockets' = [sockets EXCEPT ![w] = "unborn"]
  /\ UNCHANGED <<mounted, binanceWsRef, timers, reconnectTimeoutRef, priceHistory, feed,
                 dirty, periodVars, notDash>>

\* Time passes while the anomaly interval is set and not due.
Tick ==
  /\ mounted = "yes"
  /\ elapsed < AnomalyPeriod
  /\ elapsed' = IF elapsed + TickSeconds < AnomalyPeriod THEN elapsed + TickSeconds
                 ELSE AnomalyPeriod
  /\ UNCHANGED <<mounted, sockets, binanceWsRef, timers, reconnectTimeoutRef, priceHistory,
                 feed, dirty, snapshot, asked, notDash>>

\* The anomaly interval is due: runAnomalyDetection, up to its fetch for
\* each symbol that has the history.
IntervalFire ==
  /\ mounted = "yes"
  /\ elapsed = AnomalyPeriod
  /\ elapsed' = 0
  /\ asked' = asked \cup {symbol \in Symbols : Len(snapshot[symbol]) >= DetectionMinHistory}
  /\ UNCHANGED <<mounted, sockets, binanceWsRef, timers, reconnectTimeoutRef, priceHistory,
                 feed, dirty, snapshot, notDash>>

\* ------------------------------------------------------------------ alerts
\* The findings of a response as the dashboard lists them: the n-th finding
\* of the response that arrived as the batch-th with findings (the id of an
\* alert names its symbol, its type and the time of arrival).
NewAnomalies(batch, n) == [i \in 1..n |-> [batch |-> batch, index |-> i]]

\* Mutant: the oldest 50 alerts are kept.
Slice50_Oldest(list) ==
  IF Len(list) <= AlertCap THEN list ELSE SubSeq(list, Len(list) - AlertCap + 1, Len(list))

\* list.slice(0, 50)
Slice50(list) == SubSeq(list, 1, IF Len(list) < AlertCap THEN Len(list) ELSE AlertCap)

\* Numbers of findings a response with findings carries.
BatchSizes == {1, 4}

\* The response to a detection request arrives with n findings, ok or not,
\* at the mounted dashboard: the rest of runAnomalyDetection for a symbol.
DetectionResponse(ok, n) ==
  /\ mounted = "yes"
  /\ IF ok /\ n > 0
       THEN /\ Len(batches) < MaxResponses
            /\ anomalies' = Slice50(NewAnomalies(Len(batches) + 1, n) \o anomalies)
            /\ anomalyCount' = anomalyCount + n
            /\ batches' = Append(batches, n)
            /\ UNCHANGED quiet
       ELSE /\ quiet < MaxTicks
            /\ quiet' = quiet + 1
            /\ UNCHANGED <<anomalies, anomalyCount, batches>>
  /\ UNCHANGED <<dashVars, notAlert>>

\* ---------------------------------------------------------- specifications
Init ==
  /\ pc = "idle"
  /\ request = NoRequest
  /\ detected = NoDetection
  /\ response = NoResponse
  /\ prev = NoFindings
  /\ call = NoCall
  /\ result = NoResult
  /\ VALID_INVITES = InitialInvites
  /\ REGISTERED_USERS = <<>>
  /\ expired = FALSE
  /\ handlers = [rid \in 1..MaxRequests |-> NoHandler]
  /\ jar = [name \in {"oracle-token", "oracle_token"} |-> NoCookie]
  /\ session = [state |-> "none"]
  /\ authResponse = NoResponse
  /\ mounted = "no"
  /\ sockets = [w \in 1..MaxSockets |-> "unborn"]
  /\ binanceWsRef = 0
  /\ timers = {}
  /\ reconnectTimeoutRef = 0
  /\ priceHistory = [symbol \in Symbols |-> <<>>]
  /\ feed = [symbol \in Symbols \cup {"none"} |-> 0]
  /\ dirty = FALSE
  /\ elapsed = 0
  /\ snapshot = [symbol \in Symbols |-> <<>>]
  /\ asked = {}
  /\ anomalies = <<>>
  /\ anomalyCount = 0
  /\ batches = <<>>
  /\ quiet = 0

Next ==
  \/ \E body \in Bodies : SendRequest(body)
  \/ \E now \in 1..MaxTime : POST(now)
  \/ Repeat
  \/ Finish

\* The anomaly route, called by a client.
Spec == Init /\ [][Next]_vars

CallNext ==
  \/ \E arr \in Arrays : CallMean(arr)
  \/ \E currentPrice \in CallPrices, historicalPrices \in CallHistories, threshold \in Thresholds :
       CallZScore(currentPrice, historicalPrices, threshold)
  \/ \E currentVolume \in CallVolumes, historicalVolumes \in CallVolumeHistories, threshold \in VolumeThresholds :
       CallVolumeSpike(currentVolume, historicalVolumes, threshold)
  \/ \E currentPrice \in DeviationPrices, prices \in DeviationSeries, maWindow \in MaWindows, threshold \in DeviationThresholds :
       CallPriceDeviation(currentPrice, prices, maWindow, threshold)
  \/ \E current \in LOFPoints, historicalData \in LOFHistories, threshold \in LOFThresholds :
       CallLOF(current.price, current.volume, historicalData, threshold)
  \/ Return

\* The exported functions, called directly.
CallSpec == Init /\ [][CallNext]_vars

InviteNext ==
  \/ \E rid \in 1..MaxRequests, body \in RegistrationBodies : Receive(rid, body)
  \/ \E rid \in 1..MaxRequests : Register(rid)
  \/ \E rid \in 1..MaxRequests : Welcome(rid)
  \/ Expire

\* The invite route, with registration requests in any interleaving.
InviteSpec == Init /\ [][InviteNext]_vars

SessionNext ==
  \/ \E handler \in {1, 2}, email \in LoginEmails, password \in LoginPasswords,
          now \in 1..MaxTime :
       Login(handler, email, password, now)
  \/ \E method \in {"POST", "GET"} : Logout(method)

\* The login and logout routes, called by one browser.
SessionSpec == Init /\ [][SessionNext]_vars

AccountNext ==
  \/ \E rid \in 1..MaxRequests, body \in AccountBodies : Receive(rid, body)
  \/ \E rid \in 1..MaxRequests : Register(rid)
  \/ \E rid \in 1..MaxRequests : Welcome(rid)
  \/ \E handler \in {1, 2}, email \in AccountEmails, password \in Passwords :
       Login(handler, email, password, MaxTime)

\* The invite route and the login route of one deployment, called by one
\* browser.
AccountSpec == Init /\ [][AccountNext]_vars

HistoryNext ==
  \/ Mount
  \/ \E w \in 1..MaxSockets : Open(w)
  \/ \E w \in 1..MaxSockets, symbol \in Symbols : Message(w, symbol, MaxMessages)
  \/ \E w \in 1..MaxSockets : OtherMessage(w, MaxTicks)

\* The dashboard on one connection that stays open, with long streams.
HistorySpec == Init /\ [][HistoryNext]_vars

AlertNext ==
  \/ Mount
  \/ \E ok \in BOOLEAN, n \in BatchSizes \cup {0} : DetectionResponse(ok, n)

\* The dashboard and the responses to its detection requests.
AlertSpec == Init /\ [][AlertNext]_vars

PeriodicNext ==
  \/ Mount
  \/ \E w \in 1..MaxSockets : Open(w)
  \/ \E w \in 1..MaxSockets : SettledQuote(w)
  \/ Rerun
  \/ \E w \in 1..MaxSockets : CleanupClose(w)
  \/ \E w \in 1..MaxSockets : LateTimerFire(w)
  \/ \E w \in 1..MaxSockets : Collect(w)
  \/ Tick
  \/ IntervalFire

\* The mounted dashboard on connections that the server keeps, that open
\* before a reconnect timeout runs out, and whose tickers arrive once the
\* dashboard has settled after the one before: time passes, a socket that
\* can open or close does, tickers arrive again and again, the effect runs
\* after a render, and a timeout or an interval that is due runs.
PeriodicSpec ==
  /\ Init /\ [][PeriodicNext]_vars
  /\ WF_vars(Tick) /\ WF_vars(IntervalFire) /\ WF_vars(Rerun)
  /\ WF_vars(\E w \in 1..MaxSockets : Open(w))
  /\ WF_vars(\E w \in 1..MaxSockets : CleanupClose(w))
  /\ WF_vars(\E w \in 1..MaxSockets : LateTimerFire(w))
  /\ WF_vars(\E w \in 1..MaxSockets : Collect(w))
  /\ SF_vars(\E w \in 1..MaxSockets : SettledQuote(w))

DashboardNext ==
  \/ Mount
  \/ \E w \in 1..MaxSockets : Open(w)
  \/ \E w \in 1..MaxSockets, symbol \in Symbols : Message(w, symbol, MaxTicks)
  \/ \E w \in 1..MaxSockets : OtherMessage(w, MaxTicks)
  \/ \E w \in 1..MaxSockets : Close(w)
  \/ \E w \in 1..MaxSockets : TimerFire(w)
  \/ Rerun
  \/ Unmount

\* The dashboard and its connections; a timeout that is pending runs out.
DashboardSpec ==
  Init /\ [][DashboardNext]_vars /\ WF_vars(\E w \in 1..MaxSockets : TimerFire(w))

\* ----------------------------------------------------------- properties
\* The handler has answered with an evaluation result.
Evaluated == pc = "done" /\ response.status = 200

\* Position of the finding x in the sequence s (0 if absent).
IndexOf(s, x) ==
  IF \E i \in 1..Len(s) : s[i] = x THEN CHOOSE i \in 1..Len(s) : s[i] = x ELSE 0

\* C1: in every evaluation result the findings are in non-decreasing order
\* of severity rank (critical 0, high 1, medium 2, low 3).
C1_SeverityOrdered ==
  Evaluated =>
    LET a == response.body.anomalies
    IN  \A i, j \in 1..Len(a) :
          i < j => severityOrder(a[i].severity) <= severityOrder(a[j].severity)

\* A result whose findings the sort had to reorder.
C1_Witness ==
  /\ Evaluated
  /\ Len(response.body.anomalies) >= 2
  /\ response.body.anomalies # Collected(detected)

\* C2: a detector whose history is shorter than its minimum (10 for the
\* z-score and the volume spike, 20 for the price deviation and the LOF)
\* returns no finding, and the handler answers normally.
C2_Abstains ==
  (pc = "done" /\ ~Throws(request) /\ HasRequiredData(request)) =>
    LET n == Len(request.historicalData.v)
    IN  /\ n < 10 \/ ~Thrown(detected) => response.status = 200
        /\ n < 10 => detected.zScoreAnomaly = null /\ detected.volumeAnomaly = null
        /\ n < 20 => detected.priceDeviation = null /\ detected.lofAnomaly = null

\* A history of exactly 10 points: the z-score and the volume-spike
\* detectors are evaluated and emit, the other two abstain.
C2_Witness ==
  /\ Evaluated
  /\ Len(request.historicalData.v) = 10
  /\ detected.zScoreAnomaly # null
  /\ detected.volumeAnomaly # null
  /\ detected.priceDeviation = null
  /\ detected.lofAnomaly = null

\* C3: the response to a repeated request has the same findings (kinds,
\* scores, severities, order) as the response to the first one.
C3_Deterministic ==
  (pc = "done" /\ prev.seen) => Findings(response) = prev.findings

\* A repeated evaluation, at another time, with several findings.
C3_Witness ==
  /\ Evaluated
  /\ prev.seen
  /\ prev.timestamp # response.body.timestamp
  /\ Len(response.body.anomalies) >= 2

\* Whether the prices (volumes) of a history are all equal.
ConstantPrices(h) == \A i \in 1..Len(h) : h[i].price = h[1].price

ConstantVolumes(h) == \A i \in 1..Len(h) : h[i].volume = h[1].volume

\* C4: for a history of at least 10 equal prices the z-score detector
\* returns no finding, whatever the current price.
C4_ZeroVarianceGuard ==
  (Evaluated /\ Len(request.historicalData.v) >= 10
             /\ ConstantPrices(request.historicalData.v))
    => detected.zScoreAnomaly = null

\* C5: highestSeverity is the severity of the first finding, which is the
\* most urgent one; it is "none" exactly when there is no finding, which is
\* exactly when hasAnomalies is false.
C5_HighestSeverity ==
  Evaluated =>
    LET a == response.body.anomalies
        s == response.body.summary
    IN  /\ Len(a) > 0 => /\ s.highestSeverity = a[1].severity
                         /\ \A i \in 1..Len(a) :
                              severityOrder(s.highestSeverity) <= severityOrder(a[i].severity)
        /\ s.highestSeverity = "none" <=> Len(a) = 0
        /\ Len(a) = 0 <=> ~s.hasAnomalies

\* A result with findings of different severities.
C5_Witness ==
  /\ Evaluated
  /\ Len(response.body.anomalies) >= 2
  /\ response.body.anomalies[1].severity
       # response.body.anomalies[Len(response.body.anomalies)].severity

\* C6: summary.types holds every kind of the sorted findings exactly once,
\* nothing else, in the order of first occurrence in the sorted findings.
C6_DistinctKinds ==
  Evaluated =>
    LET a     == response.body.anomalies
        types == response.body.summary.types
        first(k) == CHOOSE i \in 1..Len(a) :
                      a[i].type = k /\ \A j \in 1..(i - 1) : a[j].type # k
    IN  /\ \A i, j \in 1..Len(types) : i # j => types[i] # types[j]
        /\ {types[i] : i \in 1..Len(types)} = {a[i].type : i \in 1..Len(a)}
        /\ \A i, j \in 1..Len(types) : i < j => first(types[i]) < first(types[j])

\* A result whose kinds are listed in another order than the detectors ran.
C6_Witness ==
  /\ Evaluated
  /\ Len(response.body.summary.types) >= 2
  /\ response.body.anomalies # Collected(detected)

\* C7: findings of equal severity keep the order in which the detectors
\* were invoked (zscore, volume_spike, price_deviation, lof).
C7_StableSort ==
  Evaluated =>
    LET a == response.body.anomalies
        c == Collected(detected)
    IN  \A i, j \in 1..Len(a) :
          (i < j /\ a[i].severity = a[j].severity)
            => IndexOf(c, a[i]) < IndexOf(c, a[j])

\* A result with a tie of severities among findings the sort reordered.
C7_Witness ==
  /\ Evaluated
  /\ response.body.anomalies # Collected(detected)
  /\ \E i, j \in 1..Len(response.body.anomalies) :
       /\ i < j
       /\ response.body.anomalies[i].severity = response.body.anomalies[j].severity

\* A body with a ticker, a current observation and an empty history.
EmptyHistory ==
  /\ request.t = "object"
  /\ Truthy(request.ticker)
  /\ Truthy(request.currentData)
  /\ request.historicalData = JsonArray(<<>>)

\* C8: an empty history yields a normal result without findings, neither
\* a 400 nor a 500.
C8_EmptyHistory ==
  (pc = "done" /\ EmptyHistory) =>
    /\ response.status = 200
    /\ response.body.anomalies = <<>>
    /\ response.body.anomalyCount = 0
    /\ ~response.body.summary.hasAnomalies
    /\ response.body.summary.highestSeverity = "none"

C8_Witness ==
  /\ Evaluated
  /\ EmptyHistory
  /\ request.currentData.volume = JsonNumber(120, 1)

\* C9: when the mean of at least 10 historical volumes is 0, the
\* volume-spike detector returns no finding or a finding with a finite
\* score.
C9_ZeroMeanVolume ==
  (Evaluated /\ Len(request.historicalData.v) >= 10
             /\ mean([i \in 1..Len(request.historicalData.v) |->
                        request.historicalData.v[i].volume]) = Zero)
    => \/ detected.volumeAnomaly = null
       \/ IsFinite(detected.volumeAnomaly.score)

\* A history of at least 20 points, all with the same price and volume.
ConstantHistory ==
  /\ Evaluated
  /\ Len(request.historicalData.v) >= 20
  /\ ConstantPrices(request.historicalData.v)
  /\ ConstantVolumes(request.historicalData.v)

\* The distance of the current point from the one point of a constant
\* history, as the detector computes it with both denominators 1.
DistanceFromConstant ==
  Distance([price  |-> FSub(request.currentData.price,
                            request.historicalData.v[1].price),
            volume |-> FSub(request.currentData.volume,
                            request.historicalData.v[1].volume)],
           [price |-> Zero, volume |-> Zero])

\* What the LOF detector computes for the request.
RequestLOF ==
  LOFValues(request.currentData.price, request.currentData.volume,
            request.historicalData.v)

\* The score of the finding, if there is one, is finite and is distance.
ScoreIsDistance(lof, distance) ==
  /\ lof.priceDen = FromInt(1)
  /\ lof.volumeDen = FromInt(1)
  /\ lof.scoreDen = FromInt(1)
  /\ \/ detected.lofAnomaly = null
     \/ /\ IsFinite(detected.lofAnomaly.score)
        /\ detected.lofAnomaly.score = distance

Scaled(x, k) == IF x[1] = 0 \/ ~IsFinite(x) THEN x ELSE <<x[1], x[2] + k>>

\* The score of the finding, if there is one, is finite, is the mean of the
\* nearest distances, which are all distance, and is within 8 units in the
\* last place of distance.
ScoreNearDistance(lof, distance) ==
  /\ lof.priceDen = FromInt(1)
  /\ lof.volumeDen = FromInt(1)
  /\ lof.scoreDen = FromInt(1)
  /\ \A i \in 1..Len(lof.nearest) : lof.nearest[i] = distance
  /\ \/ detected.lofAnomaly = null
     \/ /\ IsFinite(detected.lofAnomaly.score)
        /\ detected.lofAnomaly.score = mean(lof.nearest)
        /\ ~FGt(FAbs(FSub(detected.lofAnomaly.score, distance)),
                Scaled(distance, 3 - Precision))

MissingFields(body) ==
  IF body.t # "object" THEN {}
  ELSE {f \in {"ticker", "currentData", "historicalData"} : body[f] = Undefined}
       \cup (IF body.currentData.t # "object" THEN {}
             ELSE {f \in {"price", "volume"} :
                     body.currentData[f] \in {UndefinedValue, NullValue}})

\* C11: a request that lacks a required field is answered with an error
\* that names a missing field, and no detector is run on it.
C11_FailsFast ==
  (pc = "done" /\ MissingFields(request) # {}) =>
    /\ response.status = 400
    /\ "field" \in DOMAIN response.body
    /\ response.body.field \in MissingFields(request)
    /\ detected = NoDetection


\* The kind of a finding, if the detector came back with one.
Kind(x) == IF x = null \/ x = TypeError THEN {} ELSE {x.type}

\* The kinds of the findings the four detectors make of a body when each
\* of them is called, whatever the others do.
KindsFound(ticker, currentData, historicalData, hp, hv) ==
  Kind(detectZScoreAnomaly(currentData.price, hp, ticker, ZScoreThreshold, 0))
  \cup Kind(detectVolumeSpikeAnomaly(currentData.volume, hv, ticker, VolumeThreshold, 0))
  \cup Kind(detectPriceDeviation(currentData.price, hp, ticker, DefaultMaWindow,
                                 DeviationThreshold, 0))
  \cup Kind(detectLOFAnomaly(currentData.price, currentData.volume, historicalData,
                             ticker, LOFThreshold, 0))

RequestKinds ==
  KindsFound(request.ticker.v, request.currentData, request.historicalData.v,
             [i \in 1..Len(request.historicalData.v) |-> request.historicalData.v[i].price],
             [i \in 1..Len(request.historicalData.v) |-> request.historicalData.v[i].volume])

\* C12: when a detector fails on the request, the handler still answers
\* with the findings of the other detectors and with a report of the
\* failure.
C12_FailureIsolated ==
  (pc = "done" /\ Thrown(detected)) =>
    /\ response.status = 200
    /\ "detector_errors" \in DOMAIN response.body
    /\ {response.body.anomalies[i].type : i \in 1..Len(response.body.anomalies)}
         = RequestKinds


\* The request is Scenario A: twenty historical prices, each between 99
\* and 101, and a current price of 130.
InScenarioA ==
  /\ Evaluated
  /\ Len(request.historicalData.v) = 20
  /\ \A i \in 1..20 : /\ ~FGt(FromInt(99), request.historicalData.v[i].price)
                      /\ ~FGt(request.historicalData.v[i].price, FromInt(101))
  /\ request.currentData.price = FromInt(130)

\* The z-score detector found the price above the mean, with severity high
\* or critical.
FoundAbove(finding) ==
  /\ finding # null
  /\ finding.type = "zscore"
  /\ finding.direction = "above"
  /\ finding.severity \in {"high", "critical"}

\* C14, as claimed: in Scenario A the z-score detector emits a finding with
\* direction above and severity high or critical.
C14_ScenarioA == InScenarioA => FoundAbove(detected.zScoreAnomaly)

\* C14, amended: it does so when the twenty prices are not all equal, and
\* it emits no finding when they are equal and their standard deviation is
\* computed as 0.
C14_ScenarioAVarying ==
  InScenarioA =>
    /\ ~ConstantPrices(request.historicalData.v) => FoundAbove(detected.zScoreAnomaly)
    /\ standardDeviation([i \in 1..20 |-> request.historicalData.v[i].price]) = Zero
         => detected.zScoreAnomaly = null

\* Scenario A with prices that vary.
C14_Witness ==
  /\ InScenarioA
  /\ ~ConstantPrices(request.historicalData.v)
  /\ detected.zScoreAnomaly # null


C15_MeanOfEmptyFails ==
  (call.fn = "mean" /\ Len(call.arr) = 0) =>
    /\ "thrown" \in DOMAIN result
    /\ result.thrown = "EmptyInputError"

\* The population standard deviation: the square root of the sum of the
\* squared distances from the mean, divided by the number of values.
PopulationStd(arr, avg) ==
  FSqrt(FDiv(Reduce([i \in 1..Len(arr) |-> Square(FSub(arr[i], avg))], Len(arr)),
             FromInt(Len(arr))))

\* The severity the claim gives a finding of |z| = absZ.
ZScoreSeverity(absZ) ==
  IF FGt(absZ, FromInt(4)) THEN "critical"
  ELSE IF FGt(absZ, FromInt(3)) THEN "high"
  ELSE IF FGt(absZ, Round(5, 2, 0)) THEN "medium"
  ELSE "low"

\* The outcome is what the claim says of the z-score z and the threshold.
ZScoreAsClaimed(outcome, z, threshold) ==
  /\ "returned" \in DOMAIN outcome
  /\ outcome.returned # null <=> FGt(FAbs(z), threshold)
  /\ outcome.returned # null =>
       /\ outcome.returned.type = "zscore"
       /\ outcome.returned.severity = ZScoreSeverity(FAbs(z))
       /\ outcome.returned.severity = "low" => FGt(Round(5, 2, 0), threshold)
       /\ outcome.returned.score = FAbs(z)
       /\ outcome.returned.direction = IF FGt(z, Zero) THEN "above" ELSE "below"

\* z = (current - mean) / std for the arguments of the call.
ZScoreOf(currentPrice, avg, std) == FDiv(FSub(currentPrice, avg), std)

\* The z-score detector has been called with a history of at least 10
\* prices whose population standard deviation is not 0.
ZScoreCalled ==
  /\ call.fn = "detectZScoreAnomaly"
  /\ Len(call.historicalPrices) >= 10
  /\ PopulationStd(call.historicalPrices, mean(call.historicalPrices)) # Zero

\* C20: for a history of at least 10 prices with std # 0 and any threshold,
\* the z-score detector emits a finding iff |z| > threshold, with severity
\* critical above 4, high above 3, medium above 2.5 and low otherwise (only
\* under a threshold below 2.5), score |z| and direction above iff z > 0.
C20_ZScoreLadder ==
  ZScoreCalled =>
    ZScoreAsClaimed(result,
                    ZScoreOf(call.currentPrice, mean(call.historicalPrices),
                             PopulationStd(call.historicalPrices, mean(call.historicalPrices))),
                    call.threshold)

\* A finding of severity low, below the mean, under a threshold of 1.
C20_Witness ==
  /\ ZScoreCalled
  /\ call.threshold = FromInt(1)
  /\ "returned" \in DOMAIN result
  /\ result.returned # null
  /\ result.returned.severity = "low"
  /\ result.returned.direction = "below"


\* C18: once the client has logged in and then out, the cookie its login
\* set is gone from the browser.
C18_LogoutEndsSession ==
  session.state = "out" => jar[session.cookie] = NoCookie

\* The handler of the request has registered a user.
Registered(rid) ==
  \/ handlers[rid].pc = "signing"
  \/ handlers[rid].pc = "done" /\ handlers[rid].response.status = 200

\* Two requests carry the same code, but for its case.
SameCode(r1, r2) ==
  /\ handlers[r1] # NoHandler
  /\ handlers[r2] # NoHandler
  /\ ToUpperCase(handlers[r1].body.inviteCode) = ToUpperCase(handlers[r2].body.inviteCode)

\* No two requests with the same code have registered a user.
AtMostOnce ==
  \A r1, r2 \in 1..MaxRequests : (Registered(r1) /\ Registered(r2) /\ SameCode(r1, r2)) => r1 = r2

\* A handler that decides on a code that has registered a user rejects
\* the request.
LaterRejected ==
  \A rid \in 1..MaxRequests :
    (/\ handlers[rid].pc = "parsing"
     /\ handlers'[rid].pc # "parsing"
     /\ \E r \in 1..MaxRequests : Registered(r) /\ SameCode(r, rid))
    => /\ handlers'[rid].pc = "done"
       /\ handlers'[rid].response.status = 400
       /\ REGISTERED_USERS' = REGISTERED_USERS

\* C17: every invite code, in whatever case it is sent, registers at most
\* one user, and a request with a code that has registered a user is
\* answered 400 and registers nobody.
C17_SingleUse == [][AtMostOnce' /\ LaterRejected]_vars

\* A request with the code of a registered user, in another case, has
\* been rejected.
C17_Witness ==
  \E r1, r2 \in 1..MaxRequests :
    /\ Registered(r1)
    /\ handlers[r2].pc = "done"
    /\ handlers[r2].response.status = 400
    /\ handlers[r2].response.error = "This invite code has already been used"
    /\ handlers[r1].body.inviteCode # handlers[r2].body.inviteCode
    /\ SameCode(r1, r2)


\* The last 100 prices (all of them, if fewer) of the n ticker messages a
\* symbol has sent, in the order of their arrival.
MostRecent(symbol, n) ==
  [i \in 1..(IF n < 100 THEN n ELSE 100) |->
     PriceOf(symbol, n - (IF n < 100 THEN n ELSE 100) + i)]

\* C13: the history kept for each symbol has at most 100 prices and is
\* the most recent min(n, 100) prices of the n the symbol has sent, in the
\* order of arrival, whatever the other symbols have sent.
C13_HistoryCap ==
  \A symbol \in Symbols :
    /\ Len(priceHistory[symbol]) <= 100
    /\ priceHistory[symbol] = MostRecent(symbol, feed[symbol])

\* One symbol has sent more prices than are kept, the other fewer.
C13_Witness ==
  /\ feed["BTCUSDT"] > 100
  /\ feed["ETHUSDT"] \in 1..99
  /\ priceHistory["BTCUSDT"][1] = PriceOf("BTCUSDT", feed["BTCUSDT"] - 99)

\* The sockets the dashboard has constructed.
Born == MaxSockets - Cardinality(Unborn)

\* The socket of the dashboard has closed while the dashboard is mounted,
\* and it has constructed n sockets.
Disconnected(n) ==
  /\ mounted = "yes"
  /\ binanceWsRef # 0
  /\ sockets[binanceWsRef] = "CLOSED"
  /\ Born = n

\* C19: whenever the socket of the mounted dashboard has closed, the
\* dashboard constructs a new socket later on, unless it is unmounted (as
\* long as the run has a socket left to construct).
C19_Reconnects ==
  \A n \in 0..(MaxSockets - 1) : Disconnected(n) ~> (Born > n \/ mounted # "yes")

\* The socket of the mounted dashboard has closed, its timeout has run out
\* and a new socket is connecting.
C19_Witness ==
  /\ mounted = "yes"
  /\ binanceWsRef > 1
  /\ sockets[binanceWsRef] = "CONNECTING"
  /\ \E w \in 1..MaxSockets : sockets[w] = "CLOSED" /\ w \notin timers /\ w # binanceWsRef
  /\ ~dirty
  /\ feed["BTCUSDT"] = 0 /\ feed["ETHUSDT"] = 0


\* The severity of a score on a descending ladder of three steps.
Ladder(score, critical, high, medium) ==
  IF FGt(score, critical) THEN "critical"
  ELSE IF FGt(score, high) THEN "high"
  ELSE IF FGt(score, medium) THEN "medium"
  ELSE "low"

\* The outcome is a finding of the kind iff the score is above the
\* threshold, with the severity of the score on the ladder.
Laddered(outcome, kind, score, threshold, critical, high, medium) ==
  /\ "returned" \in DOMAIN outcome
  /\ outcome.returned # null <=> FGt(score, threshold)
  /\ outcome.returned # null =>
       /\ outcome.returned.type = kind
       /\ outcome.returned.score = score
       /\ outcome.returned.severity = Ladder(score, critical, high, medium)

\* The scores of the three detectors for the arguments of a call.
VolumeRatioOf(currentVolume, avgVolume) == FDiv(currentVolume, avgVolume)

DeviationOf(currentPrice, movingAverage) ==
  FAbs(FMul(FDiv(FSub(currentPrice, movingAverage), movingAverage), FromInt(100)))

\* A detector has been called with the history it needs to compute a score.
VolumeSpikeCalled ==
  call.fn = "detectVolumeSpikeAnomaly" /\ Len(call.historicalVolumes) >= 10

PriceDeviationCalled ==
  call.fn = "detectPriceDeviation" /\ Len(call.prices) >= call.maWindow

LOFCalled ==
  call.fn = "detectLOFAnomaly" /\ Len(call.historicalData) >= 20

\* C21: the volume-spike, price-deviation and LOF detectors emit a finding
\* iff their score is strictly above the threshold, and its severity is the
\* first step of the ladder the score is strictly above: ratio > 10 critical,
\* > 5 high, > 3 medium, else low; |deviation| > 15, > 10, > 5; LOF score
\* > 3, > 2, > 1.5.
C21_Ladders ==
  /\ VolumeSpikeCalled =>
       Laddered(result, "volume_spike",
                VolumeRatioOf(call.currentVolume, mean(call.historicalVolumes)),
                call.threshold, FromInt(10), FromInt(5), FromInt(3))
  /\ PriceDeviationCalled =>
       Laddered(result, "price_deviation",
                DeviationOf(call.currentPrice, mean(SliceFrom(call.prices, -call.maWindow))),
                call.threshold, FromInt(15), FromInt(10), FromInt(5))
  /\ LOFCalled =>
       Laddered(result, "lof",
                LOFValues(call.currentPrice, call.currentVolume, call.historicalData).lofScore,
                call.threshold, FromInt(3), FromInt(2), Round(3, 2, 0))

\* A volume ratio of exactly 10 above a threshold of 3: high, not critical.
C21_Witness ==
  /\ VolumeSpikeCalled
  /\ VolumeRatioOf(call.currentVolume, mean(call.historicalVolumes)) = FromInt(10)
  /\ call.threshold = FromInt(3)
  /\ result.returned # null
  /\ result.returned.severity = "high"

\* 0 <= x <= 1
InUnit(x) == x # NaN /\ ~FGt(Zero, x) /\ ~FGt(x, FromInt(1))

\* Both coordinates of a point are in [0, 1].
InUnitSquare(point) == InUnit(point.price) /\ InUnit(point.volume)

\* min <= x <= max for the values of the field of the history.
WithinRange(x, historicalData, field) ==
  /\ x # NaN
  /\ \E i \in 1..Len(historicalData) : ~FGt(historicalData[i][field], x)
  /\ \E i \in 1..Len(historicalData) : ~FGt(x, historicalData[i][field])

\* The points of the distance computation are in the unit square: the
\* historical points, and the current point if it is asked of it.
UnitSquare(values, withCurrent) ==
  /\ \A i \in 1..Len(values.normalizedHistorical) :
       InUnitSquare(values.normalizedHistorical[i])
  /\ withCurrent => InUnitSquare(values.normalizedCurrent)

LastElements(arr, k) == SubSeq(arr, Len(arr) - k + 1, Len(arr))

\* The outcome of a call of detectPriceDeviation is what the moving average
\* ma makes it: a finding iff the deviation from ma is above the threshold,
\* and the finding carries ma.
DeviationFrom(outcome, currentPrice, ma, threshold) ==
  /\ "returned" \in DOMAIN outcome
  /\ outcome.returned # null <=> FGt(DeviationOf(currentPrice, ma), threshold)
  /\ outcome.returned # null =>
       /\ outcome.returned.movingAverage = ma
       /\ outcome.returned.score = DeviationOf(currentPrice, ma)

C24_NeverLow ==
  Evaluated =>
    /\ \A i \in 1..Len(response.body.anomalies) :
         response.body.anomalies[i].severity \in {"medium", "high", "critical"}
    /\ response.body.summary.highestSeverity # "low"

\* An evaluation whose findings are all of the lowest severity there is:
\* medium.
C24_Witness ==
  /\ Evaluated
  /\ response.body.anomalyCount >= 1
  /\ response.body.summary.highestSeverity = "medium"

\* The kinds of the findings, in the order of the findings.
KindsOf(findings) == [i \in 1..Len(findings) |-> findings[i].type]

\* The number of findings of a kind.
CountOf(findings, kind) ==
  Cardinality({i \in 1..Len(findings) : findings[i].type = kind})

\* C25: an evaluation result has at most one finding of each kind (zscore,
\* volume_spike, price_deviation, lof) and no finding of another kind, hence
\* at most four findings; anomalyCount is the length of summary.types, and
\* summary.types is the sequence of the findings' kinds in result order.
C25_OnePerKind ==
  Evaluated =>
    /\ \A i \in 1..Len(response.body.anomalies) :
         response.body.anomalies[i].type \in {"zscore", "volume_spike", "price_deviation", "lof"}
    /\ \A kind \in {"zscore", "volume_spike", "price_deviation", "lof"} :
         CountOf(response.body.anomalies, kind) <= 1
    /\ Len(response.body.anomalies) <= 4
    /\ response.body.anomalyCount = Len(response.body.summary.types)
    /\ response.body.summary.types = KindsOf(response.body.anomalies)

\* A result with a finding of each of the four kinds, not in the order in
\* which the detectors ran.
C25_Witness ==
  /\ Evaluated
  /\ response.body.anomalyCount = 4
  /\ response.body.summary.types # <<"zscore", "volume_spike", "price_deviation", "lof">>

\* The invite route has answered a registration with the email and the
\* password with success.
RegisteredWith(email, password) ==
  \E rid \in 1..MaxRequests :
    /\ handlers[rid].pc = "done"
    /\ handlers[rid].response.status = 200
    /\ handlers[rid].body.email = email
    /\ handlers[rid].body.password = password

\* The login route answers a request with the email and the password.
LoginOf(email, password) ==
  \E handler \in {1, 2} : Login(handler, email, password, MaxTime)

\* The login succeeded and set a session cookie.
LoggedIn(answer, cookies) ==
  /\ answer.status = 200
  /\ cookies[answer.cookie] # NoCookie

\* C26: a user who has registered with an invite code, an email and a
\* password can log in afterwards: a login request with that email and that
\* password succeeds and sets a session cookie, it is not answered with 401.
C26_RegisteredCanLogin ==
  [][\A email \in NewEmails, password \in Passwords :
       (RegisteredWith(email, password) /\ LoginOf(email, password))
         => LoggedIn(authResponse', jar')]_vars

RECURSIVE SumOf(_, _)
SumOf(sizes, n) == IF n = 0 THEN 0 ELSE SumOf(sizes, n - 1) + sizes[n]

\* The findings of the first n batches, the most recent batch first.
RECURSIVE NewestFirst(_, _)
NewestFirst(sizes, n) ==
  IF n = 0 THEN <<>> ELSE NewAnomalies(n, sizes[n]) \o NewestFirst(sizes, n - 1)

\* The first k elements of a list, all of them if it has fewer.
FirstOf(list, k) == SubSeq(list, 1, IF Len(list) < k THEN Len(list) ELSE k)

\* C27: after any sequence of detection responses the alert list holds at
\* most 50 entries, the most recent batch first and the oldest entries
\* dropped, and anomalyCount is the number of findings ever received, at
\* least the length of the list; responses without findings change neither.
C27_AlertList ==
  /\ Len(anomalies) <= 50
  /\ anomalies = FirstOf(NewestFirst(batches, Len(batches)), 50)
  /\ anomalyCount = SumOf(batches, Len(batches))
  /\ anomalyCount >= Len(anomalies)

\* More than 50 findings have arrived, the cut goes through a batch, and a
\* response without findings has arrived too.
C27_Witness ==
  /\ anomalyCount > 50
  /\ Len(anomalies) = 50
  /\ anomalies[50].index < batches[anomalies[50].batch]
  /\ quiet > 0

\* The sockets that are connecting or open.
Live == {w \in 1..MaxSockets : sockets[w] \in {"CONNECTING", "OPEN"}}

\* C29: at any time at most one WebSocket of the dashboard is connecting or
\* open, so that a ticker event reaches the price history at most once.
C29_SingleLive == Cardinality(Live) <= 1

\* C30: once the dashboard is unmounted and the cleanup of its effect has
\* run, no reconnect timeout is pending and no WebSocket is constructed.
C30_CleanAfterUnmount ==
  [][mounted' = "gone" => (timers' = {} /\ Unborn' = Unborn)]_vars

\* C28: while the dashboard stays mounted and tickers keep arriving, once
\* a symbol has at least 20 prices in its history a detection request for
\* it is sent at some later time, however often the market data changes.
C28_Periodic ==
  \A symbol \in Symbols :
    (mounted = "yes" /\ Len(priceHistory[symbol]) >= 20)
      ~> (symbol \in asked \/ mounted # "yes")

============================================================================
